---- MODULE Spec2Model ----
(***************************************************************************)
(* Model of the consultation orchestration engine of ai-consultant-mcp:    *)
(* ConsultationService (consult / consultMultipleModels) composed with the *)
(* RateLimiter, the response Cache, the HistoryManager, the ModelSelector  *)
(* and the ApiClient behind the circuit breaker.                           *)
(*                                                                         *)
(* Concurrency follows the JavaScript event loop: the code between two     *)
(* awaits runs atomically, so there is one action per synchronous stretch  *)
(* of a handler.  Optional strings are modelled by "" (JavaScript treats   *)
(* undefined and "" alike in every test the code makes on them) and an     *)
(* optional number by a set with at most one element.                      *)
(***************************************************************************)
EXTENDS Integers, Sequences, FiniteSets, TLC

VARIABLES
    now,            \* Date.now(), in milliseconds
    rateLimit,      \* RateLimiter.requestsPerMinute (configuration)
    limitMap,       \* RateLimiter.limitMap: identifier -> RateLimitEntry
    winStat,        \* observer: per identifier, checks made and admitted in the stored window
    cache,          \* Cache: key -> entry
    histories,      \* HistoryManager.histories: conversation id -> messages
    breaker,        \* the circuit breaker shared by every ApiClient.consultAI call
    req,            \* per request slot: the activation of ConsultationService.consult
    calls,          \* breaker fires / HTTP exchanges that have not settled yet
    maxHistoryLength,  \* HistoryManager.maxHistoryLength
    appended        \* observer: per conversation, the messages pushed since its last
                    \* clear, kept while the HistoryManager is exercised on its own

vars == <<now, rateLimit, limitMap, winStat, cache, histories, breaker, req, calls,
          maxHistoryLength, appended>>

----------------------------------------------------------------------------
(* Bounds of the model                                                     *)

\* request slots that can be active at once
NumProcs == 2
\* the largest rateLimitPerMinute tried
MaxCeiling == 2
\* settled calls the breaker's rolling statistic holds
MaxStat == 2
\* timed-out HTTP exchanges that may still be running
MaxZombies == 1
\* maxConversationHistory and retryAttempts, scaled down from 20 and 3
maxConversationHistory == 2
retryAttempts == 1
\* updateHistory calls per conversation between two clears, when the
\* HistoryManager is exercised on its own
MaxUpdates == 2

(* Program constants and configuration defaults                            *)

windowMs == 60000
cacheTtlSeconds == 300
circuitBreakerThreshold100 == 50
circuitBreakerTimeout == 30000
keyPrefixLen == 100

Procs == 1 .. NumProcs

\* TokenUsage: each field is optional, {} when the provider left it out
Usage(p, c, t) == [prompt_tokens |-> p, completion_tokens |-> c, total_tokens |-> t]

\* Bodies the provider can answer with: choices[0].message.content and usage.
UpstreamResponses ==
    { [content |-> "answer A", usage |-> Usage({1}, {2}, {3})],
      [content |-> "answer B", usage |-> Usage({2}, {}, {4})] }

\* Final failures of the HTTP exchange: a status code, or none for a network error.
HttpFailures == { {400}, {500} }

Min(a, b) == IF a < b THEN a ELSE b

----------------------------------------------------------------------------
(* Text helpers                                                            *)

\* String.prototype.includes
Includes(s, k) ==
    \E i \in 1 .. (Len(s) - Len(k) + 1) : SubSeq(s, i, i + Len(k) - 1) = k

\* String.prototype.substring(0, n)
Substring0(s, n) == SubSeq(s, 1, Min(n, Len(s)))

\* Array.prototype.join(", ")
RECURSIVE JoinComma(_)
JoinComma(xs) ==
    IF Len(xs) = 0 THEN ""
    ELSE IF Len(xs) = 1 THEN xs[1]
    ELSE xs[1] \o ", " \o JoinComma(Tail(xs))

----------------------------------------------------------------------------
(* ModelSelector                                                           *)

UpperChars == <<"A","B","C","D","E","F","G","H","I","J","K","L","M",
                "N","O","P","Q","R","S","T","U","V","W","X","Y","Z">>
LowerChars == <<"a","b","c","d","e","f","g","h","i","j","k","l","m",
                "n","o","p","q","r","s","t","u","v","w","x","y","z">>

LowerChar(ch) ==
    IF \E i \in 1 .. Len(UpperChars) : UpperChars[i] = ch
    THEN LowerChars[CHOOSE i \in 1 .. Len(UpperChars) : UpperChars[i] = ch]
    ELSE ch

\* String.prototype.toLowerCase
RECURSIVE ToLowerCase(_)
ToLowerCase(s) ==
    IF Len(s) = 0 THEN ""
    ELSE IF Len(s) = 1 THEN LowerChar(s)
    ELSE LET half == Len(s) \div 2
         IN  ToLowerCase(SubSeq(s, 1, half)) \o ToLowerCase(SubSeq(s, half + 1, Len(s)))

AVAILABLE_MODELS ==
    [ m \in {"gemini-2.5-pro", "gpt-5-codex", "grok-code-fast-1"} |->
        CASE m = "gemini-2.5-pro"   -> [id |-> "google/gemini-2.5-pro"]
          [] m = "gpt-5-codex"      -> [id |-> "openai/gpt-5-codex"]
          [] m = "grok-code-fast-1" -> [id |-> "x-ai/grok-code-fast-1"] ]

codingKeywords ==
    {"code", "coding", "typescript", "javascript", "python", "java", "refactor",
     "debug", "function", "class", "bug", "programming", "algorithm"}
complexKeywords ==
    {"complex", "architecture", "system design", "detailed analysis", "in-depth",
     "comprehensive", "thorough"}
quickKeywords ==
    {"quick", "simple", "explain", "what is", "how to", "large context", "summary"}
budgetKeywords == {"budget", "cost-effective", "cheap", "affordable"}

isCodingTask(description) == \E k \in codingKeywords : Includes(description, k)
isComplexAnalysisTask(description) == \E k \in complexKeywords : Includes(description, k)
isQuickQuestionTask(description) == \E k \in quickKeywords : Includes(description, k)
isBudgetTask(description) == \E k \in budgetKeywords : Includes(description, k)

\* selectModel with the quick-question test before the complex-analysis test
selectModel_quickFirst(taskDescription) ==
    LET lowerDesc == ToLowerCase(taskDescription) IN
    IF isCodingTask(lowerDesc) THEN AVAILABLE_MODELS["gpt-5-codex"]
    ELSE IF isQuickQuestionTask(lowerDesc) THEN AVAILABLE_MODELS["gemini-2.5-pro"]
    ELSE IF isComplexAnalysisTask(lowerDesc) THEN AVAILABLE_MODELS["grok-code-fast-1"]
    ELSE IF isBudgetTask(lowerDesc) THEN AVAILABLE_MODELS["grok-code-fast-1"]
    ELSE AVAILABLE_MODELS["gpt-5-codex"]

\* ModelSelector.selectModel
selectModel(taskDescription) ==
    LET lowerDesc == ToLowerCase(taskDescription) IN
    IF isCodingTask(lowerDesc) THEN AVAILABLE_MODELS["gpt-5-codex"]
    ELSE IF isComplexAnalysisTask(lowerDesc) THEN AVAILABLE_MODELS["grok-code-fast-1"]
    ELSE IF isQuickQuestionTask(lowerDesc) THEN AVAILABLE_MODELS["gemini-2.5-pro"]
    ELSE IF isBudgetTask(lowerDesc) THEN AVAILABLE_MODELS["grok-code-fast-1"]
    ELSE AVAILABLE_MODELS["gpt-5-codex"]

\* The table is a plain object literal: a lookup by a name it does not own
\* finds the member of Object.prototype of that name.
ObjectPrototypeKeys ==
    {"constructor", "toString", "toLocaleString", "valueOf", "hasOwnProperty",
     "isPrototypeOf", "propertyIsEnumerable", "__proto__"}

\* ModelSelector.getModelById: this.models[modelId].  The descriptor of a
\* listed name; for an inherited name a truthy value whose id is undefined
\* (the empty string here); nothing for any other id.
getModelById(modelId) ==
    IF modelId \in DOMAIN AVAILABLE_MODELS THEN {AVAILABLE_MODELS[modelId]}
    ELSE IF modelId \in ObjectPrototypeKeys THEN {[id |-> ""]}
    ELSE {}

\* ConsultationService.selectModel
serviceSelectModel(explicitModel, taskDescription, prompt) ==
    IF explicitModel # "" /\ getModelById(explicitModel) # {}
    THEN (CHOOSE m \in getModelById(explicitModel) : TRUE).id
    ELSE LET description == IF taskDescription # "" THEN taskDescription ELSE prompt
         IN  selectModel(description).id

----------------------------------------------------------------------------
(* RateLimiter                                                             *)

Restrict(f, S) == [x \in S |-> f[x]]
Put(f, k, v) == [x \in DOMAIN f \cup {k} |-> IF x = k THEN v ELSE f[x]]

\* the wait rounded down instead of up
CeilSeconds_floor(ms) == ms \div 1000

\* Math.ceil(ms / 1000) for ms >= 0
CeilSeconds(ms) == (ms + 999) \div 1000

\* checkLimit with the ceiling compared by > instead of >=
checkLimit_gt(lm, identifier, t, rpm) ==
    IF identifier \notin DOMAIN lm \/ t > lm[identifier].resetTime
    THEN [ok |-> TRUE, waitTimeSeconds |-> 0,
          limitMap |-> Put(lm, identifier, [count |-> 1, resetTime |-> t + windowMs])]
    ELSE IF lm[identifier].count > rpm
    THEN [ok |-> FALSE,
          waitTimeSeconds |-> CeilSeconds(lm[identifier].resetTime - t),
          limitMap |-> lm]
    ELSE [ok |-> TRUE, waitTimeSeconds |-> 0,
          limitMap |-> [lm EXCEPT ![identifier].count = @ + 1]]

\* a sliding window: every allowed check moves the reset timestamp
checkLimit_sliding(lm, identifier, t, rpm) ==
    IF identifier \notin DOMAIN lm \/ t > lm[identifier].resetTime
    THEN [ok |-> TRUE, waitTimeSeconds |-> 0,
          limitMap |-> Put(lm, identifier, [count |-> 1, resetTime |-> t + windowMs])]
    ELSE IF lm[identifier].count >= rpm
    THEN [ok |-> FALSE,
          waitTimeSeconds |-> CeilSeconds(lm[identifier].resetTime - t),
          limitMap |-> lm]
    ELSE [ok |-> TRUE, waitTimeSeconds |-> 0,
          limitMap |-> [lm EXCEPT ![identifier] =
                           [count |-> @.count + 1, resetTime |-> t + windowMs]]]

\* RateLimiter.checkLimit at time t with ceiling rpm: ok, or a RateLimitError
\* with waitTimeSeconds; limitMap is the map after the call.
checkLimit(lm, identifier, t, rpm) ==
    IF identifier \notin DOMAIN lm \/ t > lm[identifier].resetTime
    THEN [ok |-> TRUE, waitTimeSeconds |-> 0,
          limitMap |-> Put(lm, identifier, [count |-> 1, resetTime |-> t + windowMs])]
    ELSE IF lm[identifier].count >= rpm
    THEN [ok |-> FALSE,
          waitTimeSeconds |-> CeilSeconds(lm[identifier].resetTime - t),
          limitMap |-> lm]
    ELSE [ok |-> TRUE, waitTimeSeconds |-> 0,
          limitMap |-> [lm EXCEPT ![identifier].count = @ + 1]]

\* RateLimiter.reset
reset(lm, identifier) == Restrict(lm, DOMAIN lm \ {identifier})

RateLimitError(w) ==
    [kind |-> "RateLimitError", waitTimeSeconds |-> w,
     message |-> "Rate limit exceeded. Please wait " \o ToString(w)
                 \o " seconds before making another request."]

----------------------------------------------------------------------------
(* Cache and generateCacheKey                                              *)

\* a key made of the whole prompt
generateCacheKey_whole(prompt, model) == model \o ":" \o prompt

\* generateCacheKey(prompt, model)
generateCacheKey(prompt, model) == model \o ":" \o Substring0(prompt, keyPrefixLen)

\* Cache.get: the stored value, or nothing when absent or expired
CacheGet(ch, key, t) ==
    IF key \in DOMAIN ch /\ t < ch[key].setAt + cacheTtlSeconds * 1000
    THEN {ch[key].value} ELSE {}

\* Cache.set
CacheSet(ch, key, value, t) == Put(ch, key, [value |-> value, setAt |-> t])

\* node-cache's del and flushAll
CacheDel(ch, key) == Restrict(ch, DOMAIN ch \ {key})
CacheFlushAll(ch) == <<>>

\* a set that keeps the entry a key already has
Cache_set_ifAbsent(ch, key, value, t) ==
    IF key \in DOMAIN ch THEN ch ELSE CacheSet(ch, key, value, t)

\* a get that serves an entry whatever its age
Cache_get_stale(ch, key, t) == IF key \in DOMAIN ch THEN {ch[key].value} ELSE {}

\* The methods of class Cache: each hands over to the node-cache instance.
Cache_get(ch, key, t) == CacheGet(ch, key, t)
Cache_set(ch, key, value, t) == CacheSet(ch, key, value, t)
Cache_delete(ch, key) == CacheDel(ch, key)
Cache_clear(ch) == CacheFlushAll(ch)

\* a lookup that never finds anything
checkCache_never(ch, prompt, model, t) == {}

\* ConsultationService.checkCache
\* checkCache with the arguments of the key swapped
checkCache_swapped(ch, prompt, model, t) == CacheGet(ch, generateCacheKey(model, prompt), t)

checkCache(ch, prompt, model, t) == Cache_get(ch, generateCacheKey(prompt, model), t)

\* ConsultationService.cacheResult
\* cacheResult with the arguments of the key swapped
cacheResult_swapped(ch, prompt, model, result, t) ==
    CacheSet(ch, generateCacheKey(model, prompt), result, t)

cacheResult(ch, prompt, model, result, t) ==
    Cache_set(ch, generateCacheKey(prompt, model), result, t)

----------------------------------------------------------------------------
(* HistoryManager                                                          *)

Message(role, content) == [role |-> role, content |-> content]

\* the stored messages of a conversation, none if it has no entry
Stored(hs, id) == IF id \in DOMAIN hs THEN hs[id] ELSE <<>>

\* HistoryManager.getHistory: creates the empty history on first access
getHistory(hs, conversationId) ==
    LET hs1 == IF conversationId \in DOMAIN hs THEN hs ELSE Put(hs, conversationId, <<>>)
    IN  [histories |-> hs1, history |-> hs1[conversationId]]

\* updateHistory that keeps the oldest messages instead of the newest
updateHistory_keepsOldest(hs, conversationId, userMessage, assistantMessage) ==
    LET g == getHistory(hs, conversationId)
        pushed == g.history \o <<userMessage, assistantMessage>>
        pruned == IF Len(pushed) > maxHistoryLength
                  THEN SubSeq(pushed, 1, maxHistoryLength)
                  ELSE pushed
    IN  Put(g.histories, conversationId, pruned)

\* an update that stores the new turn in place of the history
updateHistory_overwrites(hs, conversationId, userMessage, assistantMessage) ==
    Put(hs, conversationId, <<userMessage, assistantMessage>>)

\* HistoryManager.updateHistory: push both, then splice(0, excess)
updateHistory(hs, conversationId, userMessage, assistantMessage) ==
    LET g == getHistory(hs, conversationId)
        pushed == g.history \o <<userMessage, assistantMessage>>
        excess == Len(pushed) - maxHistoryLength
        pruned == IF Len(pushed) > maxHistoryLength
                  THEN SubSeq(pushed, excess + 1, Len(pushed))
                  ELSE pushed
    IN  Put(g.histories, conversationId, pruned)

\* a clear that leaves the conversation as it is
clearHistory_keeps(hs, conversationId) == hs

\* a clear that empties the whole map
clearHistory_all(hs, conversationId) == <<>>

\* HistoryManager.clearHistory
clearHistory(hs, conversationId) == Restrict(hs, DOMAIN hs \ {conversationId})

----------------------------------------------------------------------------
(* Circuit breaker (the state machine of section 4.5)                      *)

BreakerInit == [state |-> "CLOSED", pendingClose |-> FALSE, successes |-> 0, failures |-> 0]

\* The rolling statistic holds at most MaxStat settled calls: when it is full
\* the window rolls before the next outcome is counted.
BreakerCount(b, success) ==
    LET b0 == IF b.successes + b.failures >= MaxStat
              THEN [b EXCEPT !.successes = 0, !.failures = 0] ELSE b
    IN  IF success THEN [b0 EXCEPT !.successes = @ + 1]
        ELSE [b0 EXCEPT !.failures = @ + 1]

ErrorRateExceeded(b) ==
    b.failures * 100 > circuitBreakerThreshold100 * (b.successes + b.failures)

\* fire: does the breaker invoke the wrapped action, and is that call the probe
BreakerFire(b) ==
    IF b.state = "CLOSED"
    THEN [admit |-> TRUE, probe |-> FALSE, breaker |-> b]
    ELSE IF b.state = "HALF_OPEN" /\ b.pendingClose
    THEN [admit |-> TRUE, probe |-> TRUE, breaker |-> [b EXCEPT !.pendingClose = FALSE]]
    ELSE [admit |-> FALSE, probe |-> FALSE, breaker |-> b]

\* the wrapped action resolved
BreakerOnSuccess(b, probe) ==
    LET b1 == BreakerCount(b, TRUE) IN
    IF b.state = "HALF_OPEN" /\ probe
    THEN [b1 EXCEPT !.state = "CLOSED", !.pendingClose = FALSE]
    ELSE b1

\* the wrapped action rejected, or the per-call timeout elapsed
BreakerOnFailure(b, probe) ==
    LET b1 == BreakerCount(b, FALSE) IN
    IF b.state = "HALF_OPEN" /\ probe
    THEN [b1 EXCEPT !.state = "OPEN", !.pendingClose = FALSE]
    ELSE IF b.state = "CLOSED" /\ ErrorRateExceeded(b1)
    THEN [b1 EXCEPT !.state = "OPEN", !.pendingClose = FALSE]
    ELSE b1

\* the reset timeout elapsed while OPEN
BreakerOnResetTimeout(b) == [b EXCEPT !.state = "HALF_OPEN", !.pendingClose = TRUE]

\* fire that invokes the wrapped action whatever the breaker's state
CircuitBreakerWrapper_fire_direct(b) == [admit |-> TRUE, probe |-> FALSE, breaker |-> b]

\* CircuitBreakerWrapper.fire: every ApiClient shares the one wrapped breaker
CircuitBreakerWrapper_fire(b) == BreakerFire(b)

----------------------------------------------------------------------------
(* ApiClient                                                               *)

PlainError(message) == [kind |-> "Error", message |-> message, statusCode |-> {}]
AxiosError(status) ==
    [kind |-> "AxiosError", statusCode |-> status,
     message |-> IF status = {} THEN "Network Error"
                 ELSE "Request failed with status code "
                      \o ToString(CHOOSE x \in status : TRUE)]
ApiError(message, status) == [kind |-> "ApiError", message |-> message, statusCode |-> status]

\* ApiClient.handleError
handleError(error) ==
    IF error.kind = "AxiosError"
    THEN ApiError("OpenRouter API error: " \o error.message, error.statusCode)
    ELSE ApiError("API error: " \o error.message, {})

\* a retryCondition that retries whatever the failure was
retryCondition_always(status) == status = {} \/ (\E x \in status : x >= 400)

\* axios-retry's retryCondition for a POST: a network error or a 5xx response
retryCondition(status) == status = {} \/ (\E x \in status : x >= 500)

\* ApiClient.makeApiCall, the action wrapped by the breaker: what it throws
\* when the HTTP exchange finally fails
makeApiCall_error(status) == handleError(AxiosError(status))

\* ApiClient.consultAI: the value returned for an upstream body
consultAI_result(model, response) ==
    [model |-> model, response |-> response.content, usage |-> response.usage]

\* ApiClient.consultAI: the error thrown for a failed fire
consultAI_error(error) == handleError(error)

----------------------------------------------------------------------------
(* ConsultationService: the state of one activation                         *)

\* ConsultArgs.  models_given tells an empty list from an absent one; absent
\* strings are empty.
NoArgs ==
    [prompt |-> "", model |-> "", models_given |-> FALSE, models |-> <<>>,
     task_description |-> "", conversation_id |-> "", clear_history |-> FALSE]

NoOut == [kind |-> "none"]

IdleReq ==
    [pc |-> "idle", args |-> NoArgs, selectedModel |-> "", idx |-> 1,
     results |-> <<>>, totals |-> [prompt_tokens |-> 0, completion_tokens |-> 0, total_tokens |-> 0],
     upCalls |-> 0, failed |-> {}, trace |-> <<>>, out |-> NoOut]

\* x || 0 on an optional number
OrZero(f) == IF f = {} THEN 0 ELSE CHOOSE x \in f : TRUE

\* ToolHandler.handleConsultAI: the response built from consult's result
toolResponse(a, result) ==
    [model_used |-> result.model, response |-> result.response,
     tokens_used |-> result.usage, conversation_id |-> a.conversation_id,
     cached |-> Includes(result.model, "(cached)")]

OkOut(a, result) == [kind |-> "ok", result |-> result, response |-> toolResponse(a, result)]
ErrOut(error) == [kind |-> "error", error |-> error]
Done(r, out) == [r EXCEPT !.pc = "done", !.out = out]
Did(r, op) == [r EXCEPT !.trace = Append(@, op)]
\* Observer: the consultAI invocation for the model at r.idx rejected.
Failed(r) == [r EXCEPT !.failed = @ \cup {r.idx}]

\* const rateLimitId = conversation_id || "global"
rateLimitId(a) == IF a.conversation_id # "" THEN a.conversation_id ELSE "global"

\* Observer of the limiter: checks made and admitted in the stored window of id.
MaxChecks == MaxCeiling + 1
ObserveCheck(ws, lm, id, c) ==
    IF id \notin DOMAIN lm \/ id \notin DOMAIN ws
       \/ (id \in DOMAIN c.limitMap /\ c.limitMap[id].resetTime # lm[id].resetTime)
    THEN Put(ws, id, [checks |-> 1, admitted |-> IF c.ok THEN 1 ELSE 0])
    ELSE [ws EXCEPT ![id] = [checks |-> Min(@.checks + 1, MaxChecks),
                             admitted |-> Min(@.admitted + (IF c.ok THEN 1 ELSE 0), MaxChecks)]]

\* a service that lets a stateless single-model request whose answer is in
\* the cache through without charging it to the limiter
serviceCheckLimit_hitsFree(a, w, t, rpm) ==
    LET c == checkLimit(w.limitMap, rateLimitId(a), t, rpm)
        hit == /\ a.conversation_id = ""
               /\ Len(a.models) = 0
               /\ checkCache(w.cache, a.prompt,
                             serviceSelectModel(a.model, a.task_description, a.prompt), t) # {}
    IN  IF hit THEN [ok |-> TRUE, waitTimeSeconds |-> 0, w |-> w]
        ELSE [ok |-> c.ok, waitTimeSeconds |-> c.waitTimeSeconds,
              w |-> [w EXCEPT !.limitMap = c.limitMap,
                              !.winStat = ObserveCheck(w.winStat, w.limitMap, rateLimitId(a), c)]]

\* this.rateLimiter.checkLimit(rateLimitId) as the service calls it
serviceCheckLimit(a, w, t, rpm) ==
    LET c == checkLimit(w.limitMap, rateLimitId(a), t, rpm)
    IN  [ok |-> c.ok, waitTimeSeconds |-> c.waitTimeSeconds,
         w |-> [w EXCEPT !.limitMap = c.limitMap,
                         !.winStat = ObserveCheck(w.winStat, w.limitMap, rateLimitId(a), c)]]

\* consult with the history cleared before the rate-limit check
consult_limitAndClear_clearFirst(a, w, r, t, rpm) ==
    LET clears == a.clear_history /\ a.conversation_id # ""
        w0 == IF clears THEN [w EXCEPT !.histories = clearHistory(@, a.conversation_id)] ELSE w
        r0 == IF clears THEN Did(r, "clearHistory") ELSE r
        c == serviceCheckLimit(a, w0, t, rpm)
        r1 == Did(r0, "checkLimit")
    IN  IF ~c.ok
        THEN [ok |-> FALSE, w |-> c.w, r |-> Done(r1, ErrOut(RateLimitError(c.waitTimeSeconds)))]
        ELSE [ok |-> TRUE, r |-> r1, w |-> c.w]

\* consult, lines 355-368: rate-limit check, then the optional history clear
consult_limitAndClear(a, w, r, t, rpm) ==
    LET c == serviceCheckLimit(a, w, t, rpm)
        r1 == Did(r, "checkLimit")
    IN  IF ~c.ok
        THEN [ok |-> FALSE, w |-> c.w, r |-> Done(r1, ErrOut(RateLimitError(c.waitTimeSeconds)))]
        ELSE IF a.clear_history /\ a.conversation_id # ""
        THEN [ok |-> TRUE, r |-> Did(r1, "clearHistory"),
              w |-> [c.w EXCEPT !.histories = clearHistory(@, a.conversation_id)]]
        ELSE [ok |-> TRUE, r |-> r1, w |-> c.w]

\* consultAI that calls makeApiCall itself instead of firing the breaker
consultAI_unguarded(w, p, idx, prompt, model, conversationHistory) ==
    LET messages == conversationHistory \o <<Message("user", prompt)>>
        call == [owner |-> p, idx |-> idx, model |-> model, sent |-> messages,
                 attempts |-> 1, statuses |-> <<>>, abandoned |-> FALSE, probe |-> FALSE]
    IN  [started |-> TRUE, error |-> ApiError("", {}),
         w |-> [w EXCEPT !.calls = @ \cup {call}]]

\* ApiClient.consultAI up to its await: the message list is built and the
\* breaker fired; a call admitted by the breaker is in flight afterwards.
consultAI(w, p, idx, prompt, model, conversationHistory) ==
    LET messages == conversationHistory \o <<Message("user", prompt)>>
        f == CircuitBreakerWrapper_fire(w.breaker)
        call == [owner |-> p, idx |-> idx, model |-> model, sent |-> messages,
                 attempts |-> 1, statuses |-> <<>>, abandoned |-> FALSE, probe |-> f.probe]
    IN  IF f.admit
        THEN [started |-> TRUE, error |-> ApiError("", {}),
              w |-> [w EXCEPT !.breaker = f.breaker, !.calls = @ \cup {call}]]
        ELSE [started |-> FALSE, error |-> consultAI_error(PlainError("Breaker is open")),
              w |-> [w EXCEPT !.breaker = f.breaker]]

\* consult that caches the result of a conversational request as well
consult_afterCall_cachesAlways(r, outcome, w, t) ==
    LET a == r.args IN
    IF ~outcome.ok
    THEN [w |-> w, r |-> Done(r, ErrOut(outcome.error))]
    ELSE IF a.conversation_id # ""
    THEN [w |-> [w EXCEPT !.histories =
                    updateHistory(@, a.conversation_id, Message("user", a.prompt),
                                  Message("assistant", outcome.result.response)),
                          !.cache = cacheResult(@, a.prompt, r.selectedModel, outcome.result, t)],
          r |-> Done(Did(r, "updateHistory"), OkOut(a, outcome.result))]
    ELSE [w |-> [w EXCEPT !.cache = cacheResult(@, a.prompt, r.selectedModel, outcome.result, t)],
          r |-> Done(Did(r, "cacheSet"), OkOut(a, outcome.result))]

\* consult that records the failed turn before it rethrows
consult_afterCall_recordsFailure(r, outcome, w, t) ==
    LET a == r.args IN
    IF ~outcome.ok
    THEN IF a.conversation_id # ""
         THEN [w |-> [w EXCEPT !.histories =
                         updateHistory(@, a.conversation_id, Message("user", a.prompt),
                                       Message("assistant", "Error: " \o outcome.error.message))],
               r |-> Done(r, ErrOut(outcome.error))]
         ELSE [w |-> [w EXCEPT !.cache =
                         cacheResult(@, a.prompt, r.selectedModel,
                                     [model |-> r.selectedModel,
                                      response |-> "Error: " \o outcome.error.message,
                                      usage |-> Usage({0}, {0}, {0})], t)],
               r |-> Done(r, ErrOut(outcome.error))]
    ELSE IF a.conversation_id # ""
    THEN [w |-> [w EXCEPT !.histories =
                    updateHistory(@, a.conversation_id, Message("user", a.prompt),
                                  Message("assistant", outcome.result.response))],
          r |-> Done(Did(r, "updateHistory"), OkOut(a, outcome.result))]
    ELSE [w |-> [w EXCEPT !.cache = cacheResult(@, a.prompt, r.selectedModel, outcome.result, t)],
          r |-> Done(Did(r, "cacheSet"), OkOut(a, outcome.result))]

\* consult, lines 403-437: what follows the await of apiClient.consultAI
consult_afterCall(r, outcome, w, t) ==
    LET a == r.args IN
    IF ~outcome.ok
    THEN [w |-> w, r |-> Done(r, ErrOut(outcome.error))]
    ELSE IF a.conversation_id # ""
    THEN [w |-> [w EXCEPT !.histories =
                    updateHistory(@, a.conversation_id, Message("user", a.prompt),
                                  Message("assistant", outcome.result.response))],
          r |-> Done(Did(r, "updateHistory"), OkOut(a, outcome.result))]
    ELSE [w |-> [w EXCEPT !.cache = cacheResult(@, a.prompt, r.selectedModel, outcome.result, t)],
          r |-> Done(Did(r, "cacheSet"), OkOut(a, outcome.result))]

\* consult, lines 355-407: the single-model path up to its await
consult_single(p, a, w, t, rpm) ==
    LET pro == consult_limitAndClear(a, w, [IdleReq EXCEPT !.args = a], t, rpm) IN
    IF ~pro.ok THEN [w |-> pro.w, r |-> pro.r]
    ELSE
    LET selectedModel == serviceSelectModel(a.model, a.task_description, a.prompt)
        r1 == [pro.r EXCEPT !.selectedModel = selectedModel]
        stateless == a.conversation_id = ""
        cached == IF stateless THEN checkCache(pro.w.cache, a.prompt, selectedModel, t) ELSE {}
        r2 == IF stateless THEN Did(r1, "cacheGet") ELSE r1
    IN  IF cached # {}
        THEN [w |-> pro.w,
              r |-> Done(r2, OkOut(a, [(CHOOSE v \in cached : TRUE)
                                        EXCEPT !.model = selectedModel \o " (cached)"]))]
        ELSE
        LET g == IF stateless THEN [histories |-> pro.w.histories, history |-> <<>>]
                 ELSE getHistory(pro.w.histories, a.conversation_id)
            r3 == IF stateless THEN r2 ELSE Did(r2, "getHistory")
            c == consultAI([pro.w EXCEPT !.histories = g.histories], p, 1,
                           a.prompt, selectedModel, g.history)
            r4 == [Did(r3, "consultAI") EXCEPT !.upCalls = @ + 1]
        IN  IF c.started
            THEN [w |-> c.w, r |-> [r4 EXCEPT !.pc = "await"]]
            ELSE consult_afterCall(Failed(r4), [ok |-> FALSE, error |-> c.error], c.w, t)

----------------------------------------------------------------------------
(* ConsultationService.consultMultipleModels                               *)

\* the batch checked once by the dispatcher and once more by the batch itself
multi_limitAndClear_twice(a, w, r, t, rpm) ==
    LET c0 == serviceCheckLimit(a, w, t, rpm)
        r0 == Did(r, "checkLimit")
    IN  IF ~c0.ok
        THEN [ok |-> FALSE, w |-> c0.w, r |-> Done(r0, ErrOut(RateLimitError(c0.waitTimeSeconds)))]
        ELSE
        LET c == serviceCheckLimit(a, c0.w, t, rpm)
            r1 == Did(r0, "checkLimit")
        IN  IF ~c.ok
            THEN [ok |-> FALSE, w |-> c.w, r |-> Done(r1, ErrOut(RateLimitError(c.waitTimeSeconds)))]
            ELSE IF a.clear_history /\ a.conversation_id # ""
            THEN [ok |-> TRUE, r |-> Did(r1, "clearHistory"),
                  w |-> [c.w EXCEPT !.histories = clearHistory(@, a.conversation_id)]]
            ELSE [ok |-> TRUE, r |-> r1, w |-> c.w]

\* lines 460-470: one rate-limit check and the optional clear, for the batch
multi_limitAndClear(a, w, r, t, rpm) ==
    LET c == serviceCheckLimit(a, w, t, rpm)
        r1 == Did(r, "checkLimit")
    IN  IF ~c.ok
        THEN [ok |-> FALSE, w |-> c.w, r |-> Done(r1, ErrOut(RateLimitError(c.waitTimeSeconds)))]
        ELSE IF a.clear_history /\ a.conversation_id # ""
        THEN [ok |-> TRUE, r |-> Did(r1, "clearHistory"),
              w |-> [c.w EXCEPT !.histories = clearHistory(@, a.conversation_id)]]
        ELSE [ok |-> TRUE, r |-> r1, w |-> c.w]

\* lines 443-481: up to the loop
multi_start(p, a, w, t, rpm) ==
    LET pro == multi_limitAndClear(a, w, [IdleReq EXCEPT !.args = a], t, rpm) IN
    IF ~a.models_given \/ Len(a.models) = 0
    THEN [w |-> w,
          r |-> Done([IdleReq EXCEPT !.args = a],
                     ErrOut(PlainError("No models specified for multi-model consultation")))]
    ELSE IF ~pro.ok THEN [w |-> pro.w, r |-> pro.r]
    ELSE [w |-> pro.w, r |-> [pro.r EXCEPT !.pc = "loop"]]

\* the collection with the usage of cached results left out of the totals
multi_collect_skipsCached(r, modelId, result, isCached) ==
    [r EXCEPT !.results = Append(@, [model |-> modelId, response |-> result.response,
                                     usage |-> result.usage, cached |-> isCached]),
              !.totals = IF isCached THEN @
                         ELSE [prompt_tokens |-> @.prompt_tokens + OrZero(result.usage.prompt_tokens),
                               completion_tokens |-> @.completion_tokens + OrZero(result.usage.completion_tokens),
                               total_tokens |-> @.total_tokens + OrZero(result.usage.total_tokens)]]

\* lines 527-538: collect a result and add its usage to the totals
multi_collect(r, modelId, result, isCached) ==
    [r EXCEPT !.results = Append(@, [model |-> modelId, response |-> result.response,
                                     usage |-> result.usage, cached |-> isCached]),
              !.totals = [prompt_tokens |-> @.prompt_tokens + OrZero(result.usage.prompt_tokens),
                          completion_tokens |-> @.completion_tokens + OrZero(result.usage.completion_tokens),
                          total_tokens |-> @.total_tokens + OrZero(result.usage.total_tokens)]]

\* lines 543-552: the catch of the loop body
multi_onError(r, modelId, error) ==
    [r EXCEPT !.results = Append(@, [model |-> modelId,
                                     response |-> "Error: " \o error.message,
                                     usage |-> Usage({0}, {0}, {0}), cached |-> FALSE])]

\* a loop that does not move on: the same model is taken again
multi_advance_stays(r) == [r EXCEPT !.pc = "loop"]

\* the loop moves on to the next model
multi_advance(r) == [r EXCEPT !.idx = @ + 1, !.pc = "loop"]

\* the call started without awaiting it: the loop goes on at once
multi_await_detached(r) == [r EXCEPT !.idx = @ + 1, !.pc = "loop"]

\* line 515: the loop is suspended on the await of apiClient.consultAI
multi_await(r) == [r EXCEPT !.pc = "await"]

\* the loop body recording a turn for each answering model, as consult does
multi_afterCall_recordsTurn(r, outcome, w, t) ==
    LET a == r.args
        modelId == a.models[r.idx]
    IN  IF ~outcome.ok
        THEN [w |-> w, r |-> multi_advance(multi_onError(r, modelId, outcome.error))]
        ELSE IF a.conversation_id = ""
        THEN [w |-> [w EXCEPT !.cache = cacheResult(@, a.prompt, r.selectedModel, outcome.result, t)],
              r |-> multi_advance(multi_collect(Did(r, "cacheSet"), modelId, outcome.result, FALSE))]
        ELSE [w |-> [w EXCEPT !.histories =
                        updateHistory(@, a.conversation_id, Message("user", a.prompt),
                                      Message("assistant", outcome.result.response))],
              r |-> multi_advance(multi_collect(Did(r, "updateHistory"), modelId,
                                                outcome.result, FALSE))]

\* the loop body without its catch: a model's error ends the batch
multi_afterCall_propagate(r, outcome, w, t) ==
    LET a == r.args
        modelId == a.models[r.idx]
    IN  IF ~outcome.ok
        THEN [w |-> w, r |-> Done(r, ErrOut(outcome.error))]
        ELSE IF a.conversation_id = ""
        THEN [w |-> [w EXCEPT !.cache = cacheResult(@, a.prompt, r.selectedModel, outcome.result, t)],
              r |-> multi_advance(multi_collect(Did(r, "cacheSet"), modelId, outcome.result, FALSE))]
        ELSE [w |-> w, r |-> multi_advance(multi_collect(r, modelId, outcome.result, FALSE))]

\* lines 515-552: what follows the await inside the loop body
multi_afterCall(r, outcome, w, t) ==
    LET a == r.args
        modelId == a.models[r.idx]
    IN  IF ~outcome.ok
        THEN [w |-> w, r |-> multi_advance(multi_onError(r, modelId, outcome.error))]
        ELSE IF a.conversation_id = ""
        THEN [w |-> [w EXCEPT !.cache = cacheResult(@, a.prompt, r.selectedModel, outcome.result, t)],
              r |-> multi_advance(multi_collect(Did(r, "cacheSet"), modelId, outcome.result, FALSE))]
        ELSE [w |-> w, r |-> multi_advance(multi_collect(r, modelId, outcome.result, FALSE))]

\* lines 484-525: one pass of the loop body up to its await
multi_iteration(p, r, w, t) ==
    LET a == r.args
        modelId == a.models[r.idx]
        modelConfig == getModelById(modelId)
        selectedModel == IF modelConfig # {} THEN (CHOOSE m \in modelConfig : TRUE).id ELSE modelId
        stateless == a.conversation_id = ""
        g == IF stateless THEN [histories |-> w.histories, history |-> <<>>]
             ELSE getHistory(w.histories, a.conversation_id)
        w1 == [w EXCEPT !.histories = g.histories]
        r1 == [(IF stateless THEN r ELSE Did(r, "getHistory")) EXCEPT !.selectedModel = selectedModel]
        cached == IF stateless THEN checkCache(w.cache, a.prompt, selectedModel, t) ELSE {}
        r2 == IF stateless THEN Did(r1, "cacheGet") ELSE r1
    IN  IF cached # {}
        THEN [w |-> w1, r |-> multi_advance(multi_collect(r2, modelId, CHOOSE v \in cached : TRUE, TRUE))]
        ELSE
        LET c == consultAI(w1, p, r.idx, a.prompt, selectedModel, g.history)
            r3 == [Did(r2, "consultAI") EXCEPT !.upCalls = @ + 1]
        IN  IF c.started
            THEN [w |-> c.w, r |-> multi_await(r3)]
            ELSE multi_afterCall(Failed(r3), [ok |-> FALSE, error |-> c.error], c.w, t)

\* ConsultationService.combineResponses
RECURSIVE combineFrom(_, _)
combineFrom(results, index) ==
    IF index > Len(results) THEN ""
    ELSE "## Model " \o ToString(index) \o ": " \o results[index].model
         \o (IF results[index].cached THEN " (cached)" ELSE "") \o "\n\n"
         \o results[index].response \o "\n\n"
         \o "**Tokens used:** " \o ToString(OrZero(results[index].usage.total_tokens)) \o "\n\n"
         \o "---\n\n"
         \o combineFrom(results, index + 1)

combineResponses(results) == "# Multi-Model Consultation Results\n\n" \o combineFrom(results, 1)

\* a batch none of whose models answered is an error
multi_finish_rejectsAllFailed(r, w) ==
    IF r.failed = 1 .. Len(r.args.models)
    THEN [w |-> w, r |-> Done(r, ErrOut(PlainError("All models failed")))]
    ELSE LET a == r.args
             combinedResponse == combineResponses(r.results)
             result == [model |-> "Multi-model: " \o JoinComma(a.models),
                        response |-> combinedResponse,
                        usage |-> Usage({r.totals.prompt_tokens}, {r.totals.completion_tokens},
                                        {r.totals.total_tokens})]
         IN  IF a.conversation_id # ""
             THEN [w |-> [w EXCEPT !.histories =
                             updateHistory(@, a.conversation_id, Message("user", a.prompt),
                                           Message("assistant", combinedResponse))],
                   r |-> Done(Did(r, "updateHistory"), OkOut(a, result))]
             ELSE [w |-> w, r |-> Done(r, OkOut(a, result))]

\* lines 555-585: after the loop
multi_finish(r, w) ==
    LET a == r.args
        combinedResponse == combineResponses(r.results)
        result == [model |-> "Multi-model: " \o JoinComma(a.models),
                   response |-> combinedResponse,
                   usage |-> Usage({r.totals.prompt_tokens}, {r.totals.completion_tokens},
                                   {r.totals.total_tokens})]
    IN  IF a.conversation_id # ""
        THEN [w |-> [w EXCEPT !.histories =
                        updateHistory(@, a.conversation_id, Message("user", a.prompt),
                                      Message("assistant", combinedResponse))],
              r |-> Done(Did(r, "updateHistory"), OkOut(a, result))]
        ELSE [w |-> w, r |-> Done(r, OkOut(a, result))]

\* ConsultationService.consult: the dispatch of lines 350-353
consult(p, a, w, t, rpm) ==
    IF a.models_given /\ Len(a.models) > 0 THEN multi_start(p, a, w, t, rpm)
    ELSE consult_single(p, a, w, t, rpm)

\* what follows the settled await, in whichever path the activation is
afterCall(r, outcome, w, t) ==
    IF Len(r.args.models) > 0 THEN multi_afterCall(r, outcome, w, t)
    ELSE consult_afterCall(r, outcome, w, t)

----------------------------------------------------------------------------
(* The state machine                                                       *)

World ==
    [limitMap |-> limitMap, winStat |-> winStat, cache |-> cache,
     histories |-> histories, breaker |-> breaker, calls |-> calls]

\* the step of slot p that leaves the world w and the activation r
Becomes(p, res) ==
    /\ limitMap' = res.w.limitMap
    /\ winStat' = res.w.winStat
    /\ cache' = res.w.cache
    /\ histories' = res.w.histories
    /\ breaker' = res.w.breaker
    /\ calls' = res.w.calls
    /\ req' = [req EXCEPT ![p] = res.r]

Init ==
    /\ now = 0
    /\ rateLimit \in 1 .. MaxCeiling
    /\ limitMap = <<>>
    /\ winStat = <<>>
    /\ cache = <<>>
    /\ histories = <<>>
    /\ breaker = BreakerInit
    /\ req = [p \in Procs |-> IdleReq]
    /\ calls = {}
    /\ maxHistoryLength = maxConversationHistory
    /\ appended = <<>>

\* a consult_ai request arrives: ToolHandler.handleConsultAI -> consult, up to
\* the first await
Consult(p, a) ==
    /\ req[p].pc = "idle"
    /\ Becomes(p, consult(p, a, World, now, rateLimit))
    /\ UNCHANGED <<now, rateLimit, maxHistoryLength, appended>>

\* the loop of consultMultipleModels takes its next model
MultiStep(p) ==
    /\ req[p].pc = "loop"
    /\ req[p].idx <= Len(req[p].args.models)
    /\ Becomes(p, multi_iteration(p, req[p], World, now))
    /\ UNCHANGED <<now, rateLimit, maxHistoryLength, appended>>

\* the loop is over: combine, record the turn, return
MultiFinish(p) ==
    /\ req[p].pc = "loop"
    /\ req[p].idx > Len(req[p].args.models)
    /\ Becomes(p, multi_finish(req[p], World))
    /\ UNCHANGED <<now, rateLimit, maxHistoryLength, appended>>

Awaited(c) ==
    /\ ~c.abandoned
    /\ req[c.owner].pc = "await"
    /\ req[c.owner].idx = c.idx

\* the provider answers 2xx: the fire resolves and the activation resumes
HttpSuccess(c, response) ==
    /\ Awaited(c)
    /\ Becomes(c.owner,
               afterCall(req[c.owner],
                         [ok |-> TRUE, result |-> consultAI_result(c.model, response)],
                         [World EXCEPT !.breaker = BreakerOnSuccess(@, c.probe),
                                       !.calls = @ \ {c}],
                         now))
    /\ UNCHANGED <<now, rateLimit, maxHistoryLength, appended>>

\* a retry the breaker sees: every failed attempt is counted as a failure
HttpRetry_counted(c, status) ==
    /\ retryCondition(status)
    /\ c.attempts < 1 + retryAttempts
    /\ calls' = (calls \ {c}) \cup {[c EXCEPT !.attempts = @ + 1,
                                                 !.statuses = Append(@, status)]}
    /\ breaker' = BreakerOnFailure(breaker, c.probe)
    /\ UNCHANGED <<now, rateLimit, maxHistoryLength, appended, limitMap, winStat, cache, histories, req>>

\* an HTTP attempt fails and axios-retry makes another attempt
HttpRetry(c, status) ==
    /\ retryCondition(status)
    /\ c.attempts < 1 + retryAttempts
    /\ calls' = (calls \ {c}) \cup {[c EXCEPT !.attempts = @ + 1,
                                                 !.statuses = Append(@, status)]}
    /\ UNCHANGED <<now, rateLimit, maxHistoryLength, appended, limitMap, winStat, cache, histories, breaker, req>>

\* the HTTP exchange finally fails: the fire rejects and the activation resumes
HttpFailure(c, status) ==
    /\ Awaited(c)
    /\ ~(retryCondition(status) /\ c.attempts < 1 + retryAttempts)
    /\ Becomes(c.owner,
               afterCall(Failed(req[c.owner]),
                         [ok |-> FALSE, error |-> consultAI_error(makeApiCall_error(status))],
                         [World EXCEPT !.breaker = BreakerOnFailure(@, c.probe),
                                       !.calls = @ \ {c}],
                         now))
    /\ UNCHANGED <<now, rateLimit, maxHistoryLength, appended>>

\* a timeout that leaves the exchange attached to its activation
Abandoned_attached(c) == c

\* An exchange nobody awaits any more: only its attempts still matter.
Abandoned(c) == [c EXCEPT !.abandoned = TRUE, !.sent = <<>>, !.probe = FALSE]

\* the breaker's per-call timeout elapses: the fire rejects, the HTTP exchange
\* goes on unobserved
CallTimeout(c) ==
    /\ Awaited(c)
    /\ Cardinality({z \in calls : z.abandoned}) < MaxZombies
    /\ Becomes(c.owner,
               afterCall(Failed(req[c.owner]),
                         [ok |-> FALSE,
                          error |-> consultAI_error(PlainError(
                              "Timed out after " \o ToString(circuitBreakerTimeout) \o "ms"))],
                         [World EXCEPT !.breaker = BreakerOnFailure(@, c.probe),
                                       !.calls = (@ \ {c}) \cup {Abandoned(c)}],
                         now))
    /\ UNCHANGED <<now, rateLimit, maxHistoryLength, appended>>

\* the HTTP exchange of a timed-out call ends; nobody listens
LateSettle(c) ==
    /\ c.abandoned
    /\ calls' = calls \ {c}
    /\ UNCHANGED <<now, rateLimit, maxHistoryLength, appended, limitMap, winStat, cache, histories, breaker, req>>

\* the response has been handed to the transport; the slot is free again
Deliver(p) ==
    /\ req[p].pc = "done"
    /\ req' = [req EXCEPT ![p] = IdleReq]
    /\ UNCHANGED <<now, rateLimit, maxHistoryLength, appended, limitMap, winStat, cache, histories, breaker, calls>>

\* A finished activation hands its response over in the same turn of the event
\* loop, before any other event is handled.
Running == \A p \in Procs : req[p].pc # "done"

\* time passes
Tick(t) ==
    /\ t > now
    /\ now' = t
    /\ UNCHANGED <<rateLimit, maxHistoryLength, appended, limitMap, winStat, cache, histories, breaker, req, calls>>

\* the breaker's reset timer fires while OPEN
BreakerResetTimeout ==
    /\ breaker.state = "OPEN"
    /\ breaker' = BreakerOnResetTimeout(breaker)
    /\ UNCHANGED <<now, rateLimit, maxHistoryLength, appended, limitMap, winStat, cache, histories, req, calls>>

\* the breaker's statistics window rolls over
StatsRoll ==
    /\ breaker.successes + breaker.failures > 0
    /\ breaker' = [breaker EXCEPT !.successes = 0, !.failures = 0]
    /\ UNCHANGED <<now, rateLimit, maxHistoryLength, appended, limitMap, winStat, cache, histories, req, calls>>

\* the cache's periodic sweep drops the expired entries
CacheSweep ==
    /\ \E k \in DOMAIN cache : CacheGet(cache, k, now) = {}
    /\ cache' = Restrict(cache, {k \in DOMAIN cache : CacheGet(cache, k, now) # {}})
    /\ UNCHANGED <<now, rateLimit, maxHistoryLength, appended, limitMap, winStat, histories, breaker, req, calls>>

----------------------------------------------------------------------------
(* Specifications.  Each one runs the same handlers; they differ in the    *)
(* requests that arrive and in what the provider and the clock do.         *)

Req(prompt, model, models, conv, clear) ==
    [prompt |-> prompt, model |-> model, models_given |-> models # <<>>,
     models |-> models, task_description |-> "",
     conversation_id |-> conv, clear_history |-> clear]

OneResponse == [content |-> "answer A", usage |-> Usage({1}, {2}, {3})]

\* Every kind of request against the limiter; the provider always answers.
LimitRequests ==
    { Req("refactor this function", "", <<>>, "", FALSE),
      Req("refactor this function", "", <<>>, "c1", FALSE),
      Req("refactor this function", "", <<>>, "c1", TRUE),
      Req("refactor this function", "", <<"gpt-5-codex", "no-such-model">>, "c1", TRUE) }
LimitTimes == {windowMs, windowMs + 1}

NextLimit ==
    \/ \E p \in Procs : Deliver(p)
    \/ /\ Running
       /\ \/ \E p \in Procs, a \in LimitRequests : Consult(p, a)
          \/ \E p \in Procs : MultiStep(p)
          \/ \E p \in Procs : MultiFinish(p)
          \/ \E c \in calls : HttpSuccess(c, OneResponse)
          \/ \E t \in LimitTimes : Tick(t)

SpecLimit == Init /\ [][NextLimit]_vars

InitTop == Init /\ rateLimit = MaxCeiling

\* Stateless requests against the cache.
CacheRequests ==
    { Req("explain recursion", "", <<>>, "", FALSE),
      Req("refactor this function", "", <<>>, "", FALSE),
      Req("explain recursion", "no-such-model", <<>>, "", FALSE),
      Req("refactor this function", "", <<"gpt-5-codex">>, "", FALSE) }
CacheTimes == {cacheTtlSeconds * 1000, cacheTtlSeconds * 1000 + windowMs + 1}

NextCache ==
    \/ \E p \in Procs : Deliver(p)
    \/ /\ Running
       /\ \/ \E p \in Procs, a \in CacheRequests : Consult(p, a)
          \/ \E p \in Procs : MultiStep(p)
          \/ \E p \in Procs : MultiFinish(p)
          \/ \E c \in calls, response \in UpstreamResponses : HttpSuccess(c, response)
          \/ \E c \in calls : HttpFailure(c, {400})
          \/ \E t \in CacheTimes : Tick(t)
          \/ CacheSweep

SpecCache == InitTop /\ [][NextCache]_vars

\* Single-model requests against a failing provider: retries, timeouts, breaker.
BreakerRequests ==
    { Req("refactor this function", "", <<>>, conv, FALSE) : conv \in {"", "c1"} }
BreakerTimes == {windowMs + 1}

NextBreaker ==
    \/ \E p \in Procs : Deliver(p)
    \/ /\ Running
       /\ \/ \E p \in Procs, a \in BreakerRequests : Consult(p, a)
          \/ \E c \in calls : HttpSuccess(c, OneResponse)
          \/ \E c \in calls, status \in HttpFailures : HttpRetry(c, status)
          \/ \E c \in calls, status \in HttpFailures : HttpFailure(c, status)
          \/ \E c \in calls : CallTimeout(c)
          \/ \E c \in calls : LateSettle(c)
          \/ \E t \in BreakerTimes : Tick(t)
          \/ BreakerResetTimeout
          \/ StatsRoll

SpecBreaker == InitTop /\ [][NextBreaker]_vars

\* Multi-model batches of one caller against a failing provider, within one
\* rate-limit window.
BatchRequests ==
    { Req("refactor this function", "", <<"gpt-5-codex", "no-such-model">>, "", FALSE),
      Req("refactor this function", "", <<"gpt-5-codex", "gpt-5-codex">>, "", FALSE),
      Req("refactor this function", "", <<"gpt-5-codex", "no-such-model">>, "c1", FALSE),
      Req("refactor this function", "", <<"no-such-model">>, "c1", TRUE) }

NextMulti ==
    \/ \E p \in Procs : Deliver(p)
    \/ /\ Running
       /\ \/ \E a \in BatchRequests : Consult(1, a)
          \/ \E p \in Procs : MultiStep(p)
          \/ \E p \in Procs : MultiFinish(p)
          \/ \E c \in calls : HttpSuccess(c, OneResponse)
          \/ \E c \in calls : HttpRetry(c, {500})
          \/ \E c \in calls : HttpFailure(c, {500})
          \/ \E c \in calls : CallTimeout(c)
          \/ \E c \in calls : LateSettle(c)
          \/ BreakerResetTimeout
          \/ StatsRoll

SpecMulti == InitTop /\ [][NextMulti]_vars

\* Stateless batches of one caller: answers with and without every usage
\* field, rejections, and entries served from the cache.
TokenRequests ==
    { Req("refactor this function", "", <<"gpt-5-codex", "no-such-model">>, "", FALSE),
      Req("refactor this function", "", <<"gpt-5-codex", "gpt-5-codex">>, "", FALSE) }

NextTokens ==
    \/ \E p \in Procs : Deliver(p)
    \/ /\ Running
       /\ \/ \E a \in TokenRequests : Consult(1, a)
          \/ \E p \in Procs : MultiStep(p)
          \/ \E p \in Procs : MultiFinish(p)
          \/ \E c \in calls, response \in UpstreamResponses : HttpSuccess(c, response)
          \/ \E c \in calls : HttpFailure(c, {400})
          \/ BreakerResetTimeout

SpecTokens == InitTop /\ [][NextTokens]_vars

\* One caller at a time, with and without a conversation id, on the
\* single-model and on the multi-model path, for the same prompt.
PathRequests ==
    { Req("refactor this function", "", <<>>, "", TRUE),
      Req("refactor this function", "", <<>>, "c1", FALSE),
      Req("refactor this function", "", <<"gpt-5-codex", "no-such-model">>, "", TRUE),
      Req("refactor this function", "", <<"gpt-5-codex">>, "c1", TRUE) }

NextPaths ==
    \/ \E p \in Procs : Deliver(p)
    \/ /\ Running
       /\ \/ \E a \in PathRequests : Consult(1, a)
          \/ \E p \in Procs : MultiStep(p)
          \/ \E p \in Procs : MultiFinish(p)
          \/ \E c \in calls : HttpSuccess(c, OneResponse)
          \/ \E c \in calls : HttpFailure(c, {400})
          \/ BreakerResetTimeout
          \/ \E t \in LimitTimes : Tick(t)

SpecPaths == InitTop /\ [][NextPaths]_vars

\* ConsultationService.selectModel on its own, for every combination of an
\* explicit model, a task description and a prompt.
ExplicitModels ==
    {"", "gemini-2.5-pro", "gpt-5-codex", "grok-code-fast-1", "no-such-model", "constructor"}
TaskDescriptions == {"", "quick question", "complex analysis", "cheap summary"}
Prompts == {"refactor this function", "what is a monad", "brief overview of the budget"}

SelectRequests ==
    { [Req(prompt, model, <<>>, "", FALSE) EXCEPT !.task_description = task] :
        prompt \in Prompts, model \in ExplicitModels, task \in TaskDescriptions }

InitSelect ==
    /\ now = 0
    /\ rateLimit = MaxCeiling
    /\ limitMap = <<>>
    /\ winStat = <<>>
    /\ cache = <<>>
    /\ histories = <<>>
    /\ breaker = BreakerInit
    /\ \E a \in SelectRequests : req = [p \in Procs |-> [IdleReq EXCEPT !.args = a]]
    /\ calls = {}
    /\ maxHistoryLength = maxConversationHistory
    /\ appended = <<>>

\* const selectedModel = this.selectModel(model, task_description, prompt)
SelectModel(p) ==
    /\ req[p].pc = "idle"
    /\ LET a == req[p].args IN
       req' = [req EXCEPT ![p] =
                  [@ EXCEPT !.pc = "selected",
                            !.selectedModel =
                                serviceSelectModel(a.model, a.task_description, a.prompt)]]
    /\ UNCHANGED <<now, rateLimit, maxHistoryLength, appended, limitMap, winStat, cache,
                   histories, breaker, calls>>

NextSelect == \E p \in Procs : SelectModel(p)

SpecSelect == InitSelect /\ [][NextSelect]_vars

\* Requests that give an empty list of models, among ordinary ones.
EmptyList(prompt, conv, clear) == [Req(prompt, "", <<>>, conv, clear) EXCEPT !.models_given = TRUE]

EmptyListRequests ==
    { EmptyList("refactor this function", "", FALSE),
      EmptyList("refactor this function", "c1", TRUE),
      Req("refactor this function", "", <<"gpt-5-codex">>, "c1", FALSE) }

NextEmptyList ==
    \/ \E p \in Procs : Deliver(p)
    \/ /\ Running
       /\ \/ \E a \in EmptyListRequests : Consult(1, a)
          \/ \E p \in Procs : MultiStep(p)
          \/ \E p \in Procs : MultiFinish(p)
          \/ \E c \in calls : HttpSuccess(c, OneResponse)
          \/ \E c \in calls : HttpFailure(c, {400})
          \/ BreakerResetTimeout

SpecEmptyList == InitTop /\ [][NextEmptyList]_vars

\* One caller on two conversations, at instants inside, at the end of and
\* after a window of the limiter.
WindowRequests ==
    { Req("refactor this function", "", <<>>, "c1", FALSE),
      Req("refactor this function", "", <<>>, "c2", FALSE) }
WindowTimes == {1, windowMs - 1, windowMs, windowMs + 1, windowMs + 2}

NextWindow ==
    \/ \E p \in Procs : Deliver(p)
    \/ /\ Running
       /\ \/ \E a \in WindowRequests : Consult(1, a)
          \/ \E c \in calls : HttpSuccess(c, OneResponse)
          \/ \E t \in WindowTimes : Tick(t)

SpecWindow == Init /\ [][NextWindow]_vars

\* One caller against a provider whose attempts fail at the network level,
\* with a 4xx or with a 5xx status, or run into the breaker's timeout.
RetryStatuses == { {}, {400}, {500}, {503} }

RetryRequests ==
    { Req("refactor this function", "", <<>>, conv, FALSE) : conv \in {"", "c1"} }

NextRetry ==
    \/ \E p \in Procs : Deliver(p)
    \/ /\ Running
       /\ \/ \E a \in RetryRequests : Consult(1, a)
          \/ \E c \in calls : HttpSuccess(c, OneResponse)
          \/ \E c \in calls, status \in RetryStatuses : HttpRetry(c, status)
          \/ \E c \in calls, status \in RetryStatuses : HttpFailure(c, status)
          \/ \E c \in calls : CallTimeout(c)
          \/ \E c \in calls : LateSettle(c)
          \/ BreakerResetTimeout

SpecRetry == InitTop /\ [][NextRetry]_vars

\* ModelSelector.selectModel on its own, for texts with and without a word
\* of each keyword set, in either case of letters.
CodingWords == {"", "Refactor ", "javascript "}
ComplexWords == {"", "ARCHITECTURE ", "in-depth "}
QuickWords == {"", "What Is ", "summary "}
BudgetWords == {"", "Cheap ", "cost-effective "}

SelectorTexts ==
    { "please " \o a \o b \o c \o d \o "now" :
        a \in CodingWords, b \in ComplexWords, c \in QuickWords, d \in BudgetWords }

InitKeywords ==
    /\ now = 0
    /\ rateLimit = MaxCeiling
    /\ limitMap = <<>>
    /\ winStat = <<>>
    /\ cache = <<>>
    /\ histories = <<>>
    /\ breaker = BreakerInit
    /\ \E text \in SelectorTexts :
          req = [p \in Procs |-> [IdleReq EXCEPT !.args.task_description = text]]
    /\ calls = {}
    /\ maxHistoryLength = maxConversationHistory
    /\ appended = <<>>

\* this.modelSelector.selectModel(description)
KeywordSelect(p) ==
    /\ req[p].pc = "idle"
    /\ req' = [req EXCEPT ![p] =
                  [@ EXCEPT !.pc = "selected",
                            !.selectedModel = selectModel(req[p].args.task_description).id]]
    /\ UNCHANGED <<now, rateLimit, maxHistoryLength, appended, limitMap, winStat, cache,
                   histories, breaker, calls>>

NextKeywords == \E p \in Procs : KeywordSelect(p)

SpecKeywords == InitKeywords /\ [][NextKeywords]_vars

\* The Cache on its own: set, get, delete and clear on two keys, at instants
\* before, at and after the expiry of an entry.
StoreKeys == {"k1", "k2"}
StoreValues ==
    { [model |-> "openai/gpt-5-codex", response |-> content, usage |-> Usage({1}, {2}, {3})] :
        content \in {"answer A", "answer B"} }
StoreTimes == {1, cacheTtlSeconds * 1000, cacheTtlSeconds * 1000 + 1, 2 * cacheTtlSeconds * 1000}

StoreSet(key, value) ==
    /\ cache' = Cache_set(cache, key, value, now)
    /\ UNCHANGED <<now, rateLimit, maxHistoryLength, appended, limitMap, winStat, histories,
                   breaker, req, calls>>

\* what the caller of get is given is kept in its slot
StoreGet(key) ==
    /\ req' = [req EXCEPT ![1] = [IdleReq EXCEPT !.args.prompt = key,
                                                !.out = [kind |-> "got",
                                                         found |-> Cache_get(cache, key, now)]]]
    /\ UNCHANGED <<now, rateLimit, maxHistoryLength, appended, limitMap, winStat, cache,
                   histories, breaker, calls>>

StoreDelete(key) ==
    /\ cache' = Cache_delete(cache, key)
    /\ UNCHANGED <<now, rateLimit, maxHistoryLength, appended, limitMap, winStat, histories,
                   breaker, req, calls>>

StoreClear ==
    /\ cache' = Cache_clear(cache)
    /\ UNCHANGED <<now, rateLimit, maxHistoryLength, appended, limitMap, winStat, histories,
                   breaker, req, calls>>

NextStore ==
    \/ \E key \in StoreKeys, value \in StoreValues : StoreSet(key, value)
    \/ \E key \in StoreKeys : StoreGet(key)
    \/ \E key \in StoreKeys : StoreDelete(key)
    \/ StoreClear
    \/ \E t \in StoreTimes : Tick(t)
    \/ CacheSweep

SpecStore == InitTop /\ [][NextStore]_vars

\* Stateless requests of one caller whose prompts are 99, 100 and more than
\* 100 characters long and differ before, at or after character 100.
TenChars == "0123456789"
Prefix99 ==
    "refactor: " \o TenChars \o TenChars \o TenChars \o TenChars \o TenChars
                 \o TenChars \o TenChars \o TenChars \o "abcdefghi"
KeyPrompts ==
    { Prefix99, Prefix99 \o "X", Prefix99 \o "X and one", Prefix99 \o "X and another",
      Prefix99 \o "Y and one" }

KeyRequests ==
    { Req(prompt, model, <<>>, "", FALSE) :
        prompt \in KeyPrompts, model \in {"", "grok-code-fast-1"} }

NextKeys ==
    \/ \E p \in Procs : Deliver(p)
    \/ /\ Running
       /\ \/ \E a \in KeyRequests : Consult(1, a)
          \/ \E c \in calls, response \in UpstreamResponses : HttpSuccess(c, response)

SpecKeys == InitTop /\ [][NextKeys]_vars

\* Concurrent callers on one conversation, each with a prompt of its own;
\* the limiter admits one request more than there are callers and the history
\* has room for every admitted turn.
TurnRequest(p) == Req("refactor part " \o ToString(p), "", <<>>, "c1", FALSE)

InitTurns ==
    /\ now = 0
    /\ rateLimit = NumProcs + 1
    /\ limitMap = <<>>
    /\ winStat = <<>>
    /\ cache = <<>>
    /\ histories = <<>>
    /\ breaker = BreakerInit
    /\ req = [p \in Procs |-> IdleReq]
    /\ calls = {}
    /\ maxHistoryLength = 2 * (NumProcs + 1)
    /\ appended = <<>>

NextTurns ==
    \/ \E p \in Procs : Deliver(p)
    \/ /\ Running
       /\ \/ \E p \in Procs : Consult(p, TurnRequest(p))
          \/ \E c \in calls, response \in UpstreamResponses : HttpSuccess(c, response)
          \/ \E c \in calls : HttpFailure(c, {400})

SpecTurns == InitTurns /\ [][NextTurns]_vars

\* Requests with clear_history, with and without a conversation id, on both
\* paths, from one caller, while the other callers add plain turns to the
\* conversation, against a provider that answers or refuses.
PlainTurn == Req("refactor this function", "", <<>>, "c1", FALSE)
ClearRequests ==
    { Req("refactor this function", "", <<>>, "c1", TRUE),
      Req("refactor this function", "", <<>>, "", TRUE),
      Req("refactor this function", "", <<"gpt-5-codex", "no-such-model">>, "c1", TRUE) }

NextClear ==
    \/ \E p \in Procs : Deliver(p)
    \/ /\ Running
       /\ \/ \E a \in ClearRequests : Consult(1, a)
          \/ \E p \in Procs : Consult(p, PlainTurn)
          \/ \E p \in Procs : MultiStep(p)
          \/ \E p \in Procs : MultiFinish(p)
          \/ \E c \in calls : HttpSuccess(c, OneResponse)
          \/ \E c \in calls : HttpFailure(c, {400})
          \/ BreakerResetTimeout

\* the limiter admits one request more than the callers can have in flight
InitClear ==
    /\ now = 0
    /\ rateLimit = NumProcs + 1
    /\ limitMap = <<>>
    /\ winStat = <<>>
    /\ cache = <<>>
    /\ histories = <<>>
    /\ breaker = BreakerInit
    /\ req = [p \in Procs |-> IdleReq]
    /\ calls = {}
    /\ maxHistoryLength = maxConversationHistory
    /\ appended = <<>>

SpecClear == InitClear /\ [][NextClear]_vars

\* Batches of one caller that list a model more than once, with and without
\* a conversation id, against a provider that takes its time.  The longest
\* batch puts between the two occurrences as many other models as it takes
\* for calls that each stay below the breaker's timeout to outlast the
\* cache's TTL.
CallTime == circuitBreakerTimeout - 1
ModelsBetween == (cacheTtlSeconds * 1000) \div CallTime + 1
OtherModels == [i \in 1 .. ModelsBetween |-> "other-model-" \o ToString(i)]
RepeatRequests ==
    { Req("refactor this function", "", <<"gpt-5-codex", "gpt-5-codex">>, conv, FALSE) :
          conv \in {"", "c1"} }
    \cup { Req("refactor this function", "", <<"gpt-5-codex", "no-such-model", "gpt-5-codex">>, "", FALSE),
           Req("refactor this function", "", <<"gpt-5-codex">> \o OtherModels \o <<"gpt-5-codex">>, "", FALSE) }

\* The awaited call c takes CallTime; every call of the batch before it has
\* taken as long, so that no call is in flight for longer.
CallTakesTime(c) ==
    /\ Awaited(c)
    /\ now = CallTime * (req[c.owner].upCalls - 1)
    /\ now' = now + CallTime
    /\ UNCHANGED <<rateLimit, maxHistoryLength, appended, limitMap, winStat, cache, histories, breaker, req, calls>>

NextRepeat ==
    \/ \E p \in Procs : Deliver(p)
    \/ /\ Running
       /\ \/ \E a \in RepeatRequests : Consult(1, a)
          \/ \E p \in Procs : MultiStep(p)
          \/ \E p \in Procs : MultiFinish(p)
          \/ \E c \in calls : HttpSuccess(c, OneResponse)
          \/ \E c \in calls : CallTakesTime(c)

SpecRepeat == InitTop /\ [][NextRepeat]_vars

\* Single requests and batches of one caller against a provider that
\* answers, fails, is retried or runs into the breaker's timeout.  Every
\* activation that can run does run (the event loop serves its queue in
\* order), and every fire an activation awaits settles.
LiveRequests ==
    { Req("refactor this function", "", <<>>, "", FALSE),
      Req("refactor this function", "", <<"gpt-5-codex", "no-such-model">>, "c1", FALSE) }

\* the fire the activation in slot p awaits settles
FireSettles(p) ==
    \E c \in calls :
        /\ c.owner = p
        /\ \/ HttpSuccess(c, OneResponse)
           \/ HttpFailure(c, {500})
           \/ CallTimeout(c)

NextLive ==
    \/ \E p \in Procs : Deliver(p)
    \/ /\ Running
       /\ \/ \E a \in LiveRequests : Consult(1, a)
          \/ \E p \in Procs : MultiStep(p)
          \/ \E p \in Procs : MultiFinish(p)
          \/ \E p \in Procs : FireSettles(p)
          \/ \E c \in calls : HttpRetry(c, {500})
          \/ BreakerResetTimeout

\* the next step of the activation in slot p is taken: its continuation runs,
\* the fire it awaits settles, or its response is handed over
Fairness ==
    \A p \in Procs :
        WF_vars(\/ Deliver(p)
                \/ /\ Running
                   /\ \/ MultiStep(p)
                      \/ MultiFinish(p)
                      \/ FireSettles(p))

SpecLive == InitTop /\ [][NextLive]_vars /\ Fairness

\* The HistoryManager on its own: any sequence of its three operations on
\* two conversations, for every maximum up to one more than the service's.
HistoryIds == {"c1", "c2"}
UserMessages == {Message("user", "q1"), Message("user", "q2")}
AssistantMessages == {Message("assistant", "a1"), Message("assistant", "a2")}
MaxHistoryLengths == 1 .. maxConversationHistory + 1

InitHistory ==
    /\ now = 0
    /\ rateLimit = MaxCeiling
    /\ limitMap = <<>>
    /\ winStat = <<>>
    /\ cache = <<>>
    /\ histories = <<>>
    /\ breaker = BreakerInit
    /\ req = [p \in Procs |-> IdleReq]
    /\ calls = {}
    /\ maxHistoryLength \in MaxHistoryLengths
    /\ appended = <<>>

HistoryGet(id) ==
    /\ histories' = getHistory(histories, id).histories
    /\ UNCHANGED <<now, rateLimit, maxHistoryLength, appended, limitMap, winStat, cache,
                   breaker, req, calls>>

HistoryUpdate(id, userMessage, assistantMessage) ==
    /\ Len(Stored(appended, id)) < 2 * MaxUpdates
    /\ histories' = updateHistory(histories, id, userMessage, assistantMessage)
    /\ appended' = Put(appended, id, Stored(appended, id) \o <<userMessage, assistantMessage>>)
    /\ UNCHANGED <<now, rateLimit, maxHistoryLength, limitMap, winStat, cache, breaker, req, calls>>

HistoryClear(id) ==
    /\ histories' = clearHistory(histories, id)
    /\ appended' = Restrict(appended, DOMAIN appended \ {id})
    /\ UNCHANGED <<now, rateLimit, maxHistoryLength, limitMap, winStat, cache, breaker, req, calls>>

NextHistory ==
    \/ \E id \in HistoryIds : HistoryGet(id)
    \/ \E id \in HistoryIds, u \in UserMessages, a \in AssistantMessages : HistoryUpdate(id, u, a)
    \/ \E id \in HistoryIds : HistoryClear(id)

SpecHistory == InitHistory /\ [][NextHistory]_vars

\* The RateLimiter and the HistoryManager side by side, each used for the
\* same two identifiers.
LimiterCheck(id) ==
    /\ limitMap' = checkLimit(limitMap, id, now, rateLimit).limitMap
    /\ UNCHANGED <<now, rateLimit, maxHistoryLength, appended, winStat, cache, histories,
                   breaker, req, calls>>

LimiterReset(id) ==
    /\ limitMap' = reset(limitMap, id)
    /\ UNCHANGED <<now, rateLimit, maxHistoryLength, appended, winStat, cache, histories,
                   breaker, req, calls>>

KeyedTimes == {windowMs, windowMs + 1}

NextKeyed ==
    \/ \E id \in HistoryIds : LimiterCheck(id)
    \/ \E id \in HistoryIds : LimiterReset(id)
    \/ \E t \in KeyedTimes : Tick(t)
    \/ \E id \in HistoryIds : HistoryGet(id)
    \/ \E id \in HistoryIds, u \in UserMessages, a \in AssistantMessages : HistoryUpdate(id, u, a)
    \/ \E id \in HistoryIds : HistoryClear(id)

SpecKeyed == InitTop /\ [][NextKeyed]_vars

----------------------------------------------------------------------------
(* Properties                                                              *)

IsRateLimited(r) ==
    r.pc = "done" /\ r.out.kind = "error" /\ r.out.error.kind = "RateLimitError"

IsUpstreamFailure(r) ==
    r.pc = "done" /\ r.out.kind = "error" /\ r.out.error.kind = "ApiError"

IsMulti(r) == Len(r.args.models) > 0

\* slot p takes a request in this step
Arrives(p) == req[p].pc = "idle" /\ req'[p].pc # "idle"

\* C1: in every stored window of every identifier, under any interleaving of
\* the consult calls, exactly the first rateLimit checks were admitted and
\* every later one was rejected: admitted = min(checks, ceiling), so the
\* number admitted never exceeds the ceiling.
C1_FirstCeilingAdmitted ==
    \A id \in DOMAIN winStat :
        /\ winStat[id].admitted = Min(winStat[id].checks, rateLimit)
        /\ winStat[id].admitted <= rateLimit

\* a check is rejected in a full window while another request is in flight
C1_Witness ==
    \E p, q \in Procs :
        /\ IsRateLimited(req[p])
        /\ req[q].pc = "await"
        /\ rateLimitId(req[q].args) = rateLimitId(req[p].args)
        /\ winStat[rateLimitId(req[p].args)].checks > rateLimit
        /\ winStat[rateLimitId(req[p].args)].admitted = rateLimit

\* C4: a request (single-model or multi-model) whose rate-limit check fails
\* ends with the RateLimitError and has changed nothing: no history cleared
\* or created, no cache access, no upstream call, no change to the breaker
\* or to the limiter's windows.
C4_RateLimitedFrame ==
    [][\A p \in Procs :
          (Arrives(p) /\ IsRateLimited(req'[p])) =>
              /\ histories' = histories
              /\ cache' = cache
              /\ breaker' = breaker
              /\ calls' = calls
              /\ limitMap' = limitMap
              /\ req'[p].trace = <<"checkLimit">>
              /\ req'[p].upCalls = 0]_vars

\* a rate-limited request that asked for clear_history on a conversation
\* that has history
C4_Witness ==
    \E p \in Procs :
        /\ IsRateLimited(req[p])
        /\ req[p].args.clear_history
        /\ req[p].args.conversation_id \in DOMAIN histories
        /\ Len(histories[req[p].args.conversation_id]) > 0

----------------------------------------------------------------------------
(* Cache                                                                   *)

IsStatelessSingle(r) == ~IsMulti(r) /\ r.args.conversation_id = ""

Has(r, op) == \E i \in 1 .. Len(r.trace) : r.trace[i] = op
Times(r, op) == Cardinality({i \in 1 .. Len(r.trace) : r.trace[i] = op})

\* the model consult resolves for the arguments a
resolvedModel(a) == serviceSelectModel(a.model, a.task_description, a.prompt)

\* the live cache entry, if any, a stateless request with arguments a looks up
entryFor(a) == CacheGet(cache, generateCacheKey(a.prompt, resolvedModel(a)), now)

\* slot p takes a stateless single-model request that passes the rate limit
\* while the cache holds a live entry for its (resolved model, prompt)
ArrivesAtEntry(p) ==
    /\ Arrives(p)
    /\ IsStatelessSingle(req'[p])
    /\ ~IsRateLimited(req'[p])
    /\ entryFor(req'[p].args) # {}

\* C2: a stateless single-model request that finds a cache entry for its
\* (resolved model, prompt) returns in the same step: no upstream call, no
\* change to any history, to the cache or to the breaker, and the response is
\* reported as a hit (model label ending in "(cached)", cached flag true).
C2_HitReturnsFromCache ==
    [][\A p \in Procs :
          ArrivesAtEntry(p) =>
              /\ req'[p].pc = "done"
              /\ req'[p].out.kind = "ok"
              /\ req'[p].out.response.model_used = resolvedModel(req'[p].args) \o " (cached)"
              /\ req'[p].out.response.cached = TRUE
              /\ req'[p].upCalls = 0
              /\ ~Has(req'[p], "consultAI")
              /\ ~Has(req'[p], "cacheSet")
              /\ ~Has(req'[p], "updateHistory")
              /\ ~Has(req'[p], "getHistory")
              /\ calls' = calls
              /\ cache' = cache
              /\ histories' = histories
              /\ breaker' = breaker]_vars

\* a stateless single-model request has been answered from the cache
C2_Witness ==
    \E p \in Procs :
        /\ req[p].pc = "done"
        /\ IsStatelessSingle(req[p])
        /\ req[p].out.kind = "ok"
        /\ req[p].out.response.cached
        /\ req[p].trace = <<"checkLimit", "cacheGet">>
        /\ calls = {}

\* the awaited call of a stateless single-model request resolves in this step
MissSucceeds(p) ==
    /\ req[p].pc = "await"
    /\ IsStatelessSingle(req[p])
    /\ req'[p].pc = "done"
    /\ req'[p].out.kind = "ok"

----------------------------------------------------------------------------
(* Upstream failures and the breaker                                       *)

\* the consultAI invocation of the single-model request in slot p rejects in
\* this step: at once, or at the end of its awaited call
SingleFails(p) ==
    /\ req[p].pc \in {"idle", "await"}
    /\ ~IsMulti(req'[p])
    /\ IsUpstreamFailure(req'[p])

\* C5: in the single-model path a rejected consultAI ends the request with
\* that error after exactly one consultAI invocation; no turn is appended to
\* any conversation (an entry created by getHistory stays empty) and the
\* cache is not written.
C5_SingleFailurePropagates ==
    [][\A p \in Procs :
          SingleFails(p) =>
              /\ req'[p].upCalls = 1
              /\ Times(req'[p], "consultAI") = 1
              /\ req'[p].failed = {1}
              /\ ~Has(req'[p], "updateHistory")
              /\ ~Has(req'[p], "cacheSet")
              /\ cache' = cache
              /\ \A id \in DOMAIN histories' :
                     histories'[id] = IF id \in DOMAIN histories THEN histories[id] ELSE <<>>
              /\ DOMAIN histories \subseteq DOMAIN histories']_vars

\* a conversational single-model request has failed upstream after an
\* earlier turn of its conversation was recorded
C5_Witness ==
    \E p \in Procs :
        /\ ~IsMulti(req[p])
        /\ IsUpstreamFailure(req[p])
        /\ req[p].args.conversation_id \in DOMAIN histories
        /\ Len(histories[req[p].args.conversation_id]) = 2
        /\ req[p].upCalls = 1

\* slot p takes a single-model request whose consultAI is invoked in this step
Invokes(p) == Arrives(p) /\ ~IsMulti(req'[p]) /\ req'[p].upCalls = 1

\* the awaited call c settles in this step: its activation resumes
Settles(c) == c \in calls /\ Awaited(c) /\ req'[c.owner] # req[c.owner]

\* the awaited call c rejects in this step
Rejects(c) == Settles(c) /\ c.idx \in req'[c.owner].failed

\* the awaited call c resolves in this step
Resolves(c) == Settles(c) /\ c.idx \notin req'[c.owner].failed

\* C6: all requests fire the one breaker.  A rejection counted while CLOSED
\* that takes the failure percentage over the threshold leaves the breaker
\* OPEN, and a consultAI invoked by any request while the breaker is OPEN
\* fails at once: no call is started (zero HTTP attempts) and the breaker is
\* left as it was.
C6_OpenFailsFast ==
    [][/\ \A c \in calls :
             (Rejects(c) /\ breaker.state = "CLOSED" /\ ErrorRateExceeded(breaker'))
                 => breaker'.state = "OPEN"
       /\ \A p \in Procs :
             (Invokes(p) /\ breaker.state = "OPEN") =>
                 /\ calls' = calls
                 /\ breaker' = breaker
                 /\ IsUpstreamFailure(req'[p])
                 /\ req'[p].out.error.message = "API error: Breaker is open"]_vars

\* a request has been failed by the OPEN breaker while no call is in flight
C6_Witness ==
    \E p \in Procs :
        /\ IsUpstreamFailure(req[p])
        /\ req[p].out.error.message = "API error: Breaker is open"
        /\ breaker.state = "OPEN"
        /\ breaker.failures > 0
        /\ calls = {}

Probes == {c \in calls : c.probe}

\* C7: the state machine of the breaker after OPEN.  OPEN is left only for
\* HALF_OPEN; HALF_OPEN admits one call, the probe, and a consultAI invoked
\* while the probe is in flight fails at once; the probe's success closes the
\* breaker and its failure opens it again; the breaker becomes CLOSED only by
\* the success of a probe.
C7_ProbeStates ==
    Cardinality(Probes) <= 1
    /\ (Probes # {} => breaker.state = "HALF_OPEN" /\ ~breaker.pendingClose)

C7_ProbeSteps ==
    /\ breaker.state = "OPEN" => breaker'.state \in {"OPEN", "HALF_OPEN"}
    /\ (breaker.state = "OPEN" /\ breaker'.state = "HALF_OPEN") =>
           (breaker'.pendingClose /\ calls' = calls)
    /\ \A p \in Procs :
          (Invokes(p) /\ breaker.state = "HALF_OPEN") =>
              IF breaker.pendingClose
              THEN /\ \E c \in calls' \ calls : c.probe /\ c.owner = p
                   /\ req'[p].pc = "await"
                   /\ breaker'.state = "HALF_OPEN"
              ELSE /\ calls' = calls
                   /\ breaker' = breaker
                   /\ IsUpstreamFailure(req'[p])
    /\ \A c \in Probes :
          /\ Resolves(c) => breaker'.state = "CLOSED"
          /\ Rejects(c) => breaker'.state = "OPEN"
    /\ (breaker.state # "CLOSED" /\ breaker'.state = "CLOSED") =>
           \E c \in Probes : Resolves(c) /\ breaker.state = "HALF_OPEN"

C7_HalfOpenProbe == []C7_ProbeStates /\ [][C7_ProbeSteps]_vars

\* the probe is in flight while another request has just been failed fast
C7_Witness ==
    \E p, q \in Procs :
        /\ breaker.state = "HALF_OPEN"
        /\ \E c \in Probes : c.owner = q /\ ~c.abandoned
        /\ req[q].pc = "await"
        /\ IsUpstreamFailure(req[p])
        /\ req[p].out.error.message = "API error: Breaker is open"

----------------------------------------------------------------------------
(* Multi-model batches                                                     *)

\* the entry the catch of the loop body pushes for a failed model
IsErrorEntry(e) ==
    /\ Len(e.response) >= 7
    /\ SubSeq(e.response, 1, 7) = "Error: "
    /\ e.usage = Usage({0}, {0}, {0})
    /\ ~e.cached

\* a batch that passed the rate-limit check has returned
BatchReturned(r) == IsMulti(r) /\ r.pc = "done" /\ ~IsRateLimited(r)

\* C8: a batch that passed the rate-limit check returns a result, whatever
\* models failed: its entries are one per requested model, in the order of
\* the request; the entry of a model whose consultAI rejected is the error
\* text and every other entry is an answer; every model that was not served
\* from the cache was consulted; and the combined response has one section
\* per entry.
C8_BatchSurvivesFailures ==
    \A p \in Procs :
        BatchReturned(req[p]) =>
            LET r == req[p]
                k == Len(r.args.models)
            IN  /\ r.out.kind = "ok"
                /\ Len(r.results) = k
                /\ \A i \in 1 .. k :
                      /\ r.results[i].model = r.args.models[i]
                      /\ (i \in r.failed) <=> IsErrorEntry(r.results[i])
                /\ r.failed \subseteq 1 .. k
                /\ r.upCalls = Cardinality({i \in 1 .. k : ~r.results[i].cached})
                /\ r.out.result.response = combineResponses(r.results)
                /\ r.out.result.model = "Multi-model: " \o JoinComma(r.args.models)

\* a batch of two has returned although its first model failed and its
\* second answered
C8_Witness ==
    \E p \in Procs :
        /\ BatchReturned(req[p])
        /\ req[p].out.kind = "ok"
        /\ Len(req[p].results) = 2
        /\ req[p].failed = {1}
        /\ IsErrorEntry(req[p].results[1])
        /\ req[p].results[2].response = "answer A"

\* the calls of slot p somebody still awaits
InFlight(p) == {c \in calls : c.owner = p /\ ~c.abandoned}

ModelOps == {"getHistory", "cacheGet", "consultAI", "cacheSet"}

C10_Trace ==
    \A p \in Procs :
        (IsMulti(req[p]) /\ req[p].pc # "idle") =>
            LET r == req[p] IN
            /\ Times(r, "checkLimit") = 1
            /\ r.trace[1] = "checkLimit"
            /\ Times(r, "clearHistory") <= 1
            /\ Times(r, "clearHistory") = 1 =>
                   (r.args.clear_history /\ r.trace[2] = "clearHistory")
            /\ \A i, j \in 1 .. Len(r.trace) :
                   (r.trace[i] \in ModelOps /\ r.trace[j] \in {"checkLimit", "clearHistory"})
                       => j < i

C10_Units ==
    \A p \in Procs :
        /\ (Arrives(p) /\ IsMulti(req'[p]) /\ ~IsRateLimited(req'[p])) =>
              LET id == rateLimitId(req'[p].args) IN
              /\ id \in DOMAIN limitMap'
              /\ limitMap'[id].count =
                     IF id \in DOMAIN limitMap /\ ~(now > limitMap[id].resetTime)
                     THEN limitMap[id].count + 1 ELSE 1
        /\ (IsMulti(req[p]) /\ req[p].pc \in {"loop", "await"}) => limitMap' = limitMap

\* C10: a batch makes exactly one rate-limit check, which takes one unit of
\* its identifier's window, and at most one history clear; both come before
\* any operation on a model, and the rest of the batch leaves the limiter
\* alone, however many models it has.
C10_OneCheckPerBatch == []C10_Trace /\ [][C10_Units]_vars

\* a batch of two models has returned after one check; another batch, of one
\* model, is covered by the same runs
C10_Witness ==
    \E p \in Procs :
        /\ BatchReturned(req[p])
        /\ Len(req[p].args.models) = 2
        /\ req[p].upCalls = 2
        /\ Times(req[p], "checkLimit") = 1
        /\ rateLimitId(req[p].args) \in DOMAIN limitMap
        /\ limitMap[rateLimitId(req[p].args)].count = 1

----------------------------------------------------------------------------
(* Batches and the conversation history                                    *)

\* no conversation's messages change in this step; getHistory may have made
\* an empty entry
MessagesKept ==
    /\ DOMAIN histories \subseteq DOMAIN histories'
    /\ \A id \in DOMAIN histories' : histories'[id] = Stored(histories, id)

\* s is what is left of t after dropping messages from its front
IsSuffix(s, t) ==
    /\ Len(s) <= Len(t)
    /\ \A i \in 1 .. Len(s) : s[i] = t[Len(t) - Len(s) + i]

\* the batch in slot p takes a step after its arrival
BatchMoves(p) ==
    IsMulti(req[p]) /\ req[p].pc \in {"loop", "await"} /\ req'[p] # req[p]

C11_Sent ==
    \A c \in calls :
        (IsMulti(req[c.owner]) /\ ~c.abandoned) =>
            LET a == req[c.owner].args IN
            c.sent = (IF a.conversation_id = "" THEN <<>>
                      ELSE Stored(histories, a.conversation_id))
                     \o <<Message("user", a.prompt)>>

C11_Steps ==
    \A p \in Procs :
        BatchMoves(p) =>
            LET a == req[p].args
                id == a.conversation_id
            IN  IF id = "" THEN histories' = histories /\ ~Has(req'[p], "updateHistory")
                ELSE IF req'[p].pc # "done"
                THEN MessagesKept /\ ~Has(req'[p], "updateHistory")
                ELSE LET h == histories'[id]
                         n == Len(h)
                     IN  /\ Times(req'[p], "updateHistory") = 1
                         /\ n >= 2
                         /\ h[n - 1] = Message("user", a.prompt)
                         /\ h[n] = Message("assistant", req'[p].out.result.response)
                         /\ req'[p].out.result.response = combineResponses(req[p].results)
                         /\ IsSuffix(SubSeq(h, 1, n - 2), Stored(histories, id))
                         /\ \A x \in DOMAIN histories' \ {id} : histories'[x] = Stored(histories, x)

----------------------------------------------------------------------------
(* Token totals of a batch                                                 *)

TokenFields == {"prompt_tokens", "completion_tokens", "total_tokens"}

\* the sum of the usage field f over the entries of results from index i on
\* whose model did not fail; a field the provider left out counts as zero
RECURSIVE SumAnswered(_, _, _, _)
SumAnswered(results, failed, f, i) ==
    IF i > Len(results) THEN 0
    ELSE (IF i \in failed THEN 0 ELSE OrZero(results[i].usage[f]))
         + SumAnswered(results, failed, f, i + 1)

\* C12: each token count a batch returns is the sum of that field over the
\* entries of the models that answered, from upstream or from the cache,
\* with a missing field counted as zero; the entry of a failed model carries
\* zeros and adds nothing.
C12_TotalsAreSums ==
    \A p \in Procs :
        BatchReturned(req[p]) =>
            LET r == req[p] IN
            /\ \A f \in TokenFields :
                   r.out.result.usage[f] = {SumAnswered(r.results, r.failed, f, 1)}
            /\ \A i \in r.failed : r.results[i].usage = Usage({0}, {0}, {0})
            /\ r.out.response.tokens_used = r.out.result.usage

\* a batch has returned whose first model answered without a completion
\* count and whose second model failed
C12_Witness ==
    \E p \in Procs :
        /\ BatchReturned(req[p])
        /\ req[p].failed = {2}
        /\ req[p].results[1].usage = Usage({2}, {}, {4})
        /\ req[p].out.result.usage = Usage({2}, {0}, {4})

----------------------------------------------------------------------------
(* HistoryManager                                                          *)

\* the last n elements of s, all of s if it has fewer
LastN(s, n) == IF Len(s) <= n THEN s ELSE SubSeq(s, Len(s) - n + 1, Len(s))

\* C13: whatever updateHistory, getHistory and clearHistory calls were made,
\* every stored history is no longer than the configured maximum and is the
\* most recent part, in the order of appending, of the messages appended to
\* its conversation since the last clear.
C13_RecentSuffix ==
    \A id \in DOMAIN histories :
        /\ Len(histories[id]) <= maxHistoryLength
        /\ histories[id] = LastN(Stored(appended, id), maxHistoryLength)

\* a conversation has lost its oldest messages to the trimming while another
\* one keeps all of its own
C13_Witness ==
    \E id, other \in DOMAIN histories :
        /\ Len(Stored(appended, id)) = 4
        /\ Len(histories[id]) = maxHistoryLength
        /\ maxHistoryLength = 2
        /\ histories[id][1] # appended[id][1]
        /\ Len(histories[other]) = 2
        /\ histories[other] = Stored(appended, other)
        /\ other # id

Alternates(h) ==
    \A i \in 1 .. Len(h) :
        h[i].role = IF i % 2 = 1 THEN "user" ELSE "assistant"

\* C14: for every configured maximum, every stored history has even length,
\* starts with a user message and alternates user and assistant: trimming
\* drops whole (user, assistant) pairs.
C14_WholePairs ==
    \A id \in DOMAIN histories :
        /\ Len(histories[id]) % 2 = 0
        /\ Alternates(histories[id])

----------------------------------------------------------------------------
(* Conversational and stateless requests                                   *)

CacheOps == {"cacheGet", "cacheSet"}
HistoryOps == {"getHistory", "updateHistory", "clearHistory"}

OpsOf(r) == {r.trace[i] : i \in 1 .. Len(r.trace)}

C15_Ops ==
    \A p \in Procs :
        req[p].pc # "idle" =>
            LET r == req[p] IN
            IF r.args.conversation_id # ""
            THEN /\ OpsOf(r) \cap CacheOps = {}
                 /\ \A i \in 1 .. Len(r.results) : ~r.results[i].cached
                 /\ r.out.kind = "ok" => ~r.out.response.cached
                 /\ (r.pc = "done" /\ ~IsRateLimited(r)) =>
                        r.upCalls = IF IsMulti(r) THEN Len(r.args.models) ELSE 1
            ELSE OpsOf(r) \cap HistoryOps = {}

C15_Steps ==
    \A p \in Procs :
        (req'[p] # req[p] /\ req'[p].pc # "idle") =>
            IF req'[p].args.conversation_id # ""
            THEN cache' = cache
            ELSE histories' = histories

\* C15: a request with a conversation id never looks into the cache and never
\* writes it, on either path: it reaches consultAI for every model whatever
\* the cache holds.  A request without a conversation id never reads,
\* creates, clears or updates a conversation history.
C15_CacheXorHistory == []C15_Ops /\ [][C15_Steps]_vars

\* a conversational request was answered from upstream although the cache
\* held a live entry for its prompt and model, and the conversation's turn
\* was recorded
C15_Witness ==
    \E p \in Procs :
        /\ req[p].pc = "done"
        /\ ~IsMulti(req[p])
        /\ req[p].args.conversation_id = "c1"
        /\ req[p].out.kind = "ok"
        /\ req[p].upCalls = 1
        /\ entryFor(req[p].args) # {}
        /\ Len(Stored(histories, "c1")) = 2

----------------------------------------------------------------------------
(* The error a caller gets from the OPEN breaker                           *)

\* C16: a single-model consult that invokes consultAI while the breaker is
\* OPEN fails with the breaker's own rejection, unmodified: the caller can
\* tell it from an upstream failure (an ApiError) by its type.
C16_CircuitOpenUnmodified ==
    [][\A p \in Procs :
          (Invokes(p) /\ breaker.state = "OPEN" /\ ~IsMulti(req'[p])) =>
              /\ req'[p].out.kind = "error"
              /\ req'[p].out.error = PlainError("Breaker is open")
              /\ req'[p].out.error.kind # "ApiError"]_vars

----------------------------------------------------------------------------
(* Model resolution                                                        *)

ProviderIds == {AVAILABLE_MODELS[m].id : m \in DOMAIN AVAILABLE_MODELS}

\* the model auto-selection gives for the request's text
AutoSelected(a) ==
    selectModel(IF a.task_description # "" THEN a.task_description ELSE a.prompt).id

\* C17: resolution in the single-model path always yields the id of a listed
\* model: the id of the explicit model when it names a listed model, whatever
\* the task text; otherwise the model auto-selected from the task description
\* when there is one and from the prompt when there is none.
C17_ResolutionNeverFails ==
    \A p \in Procs :
        req[p].pc = "selected" =>
            LET a == req[p].args IN
            /\ req[p].selectedModel \in ProviderIds
            /\ req[p].selectedModel =
                   IF a.model \in DOMAIN AVAILABLE_MODELS
                   THEN AVAILABLE_MODELS[a.model].id
                   ELSE AutoSelected(a)

\* C18: in a multi-model request every upstream call is made with the id of
\* a listed model: the listed id of the entry's model when it names one,
\* and otherwise the model auto-selected from the request's text, never the
\* requested id itself.
C18_UnknownDegrades ==
    \A c \in calls :
        LET a == req[c.owner].args IN
        (~c.abandoned /\ IsMulti(req[c.owner])) =>
            /\ c.model \in ProviderIds
            /\ c.model = IF a.models[c.idx] \in DOMAIN AVAILABLE_MODELS
                         THEN AVAILABLE_MODELS[a.models[c.idx]].id
                         ELSE AutoSelected(a)

----------------------------------------------------------------------------
(* Validation of the list of models                                        *)

\* C19: a request that gives an empty list of models is rejected with a
\* validation error at once: no rate-limit check, no cache or history access
\* and no upstream call is made for it.
C19_EmptyListRejected ==
    [][\A p \in Procs :
          (Arrives(p) /\ req'[p].args.models_given /\ Len(req'[p].args.models) = 0) =>
              /\ req'[p].pc = "done"
              /\ req'[p].out.kind = "error"
              /\ req'[p].out.error.kind = "Error"
              /\ req'[p].trace = <<>>
              /\ req'[p].upCalls = 0
              /\ UNCHANGED <<limitMap, cache, histories, calls, breaker>>]_vars

----------------------------------------------------------------------------
(* The wait a rate-limited caller is told                                  *)

\* C20: every RateLimitError carries a wait of at least one second, at
\* whatever time of the window the rejected check is made.
C20_PositiveWait ==
    \A p \in Procs :
        IsRateLimited(req[p]) => req[p].out.error.waitTimeSeconds >= 1

----------------------------------------------------------------------------
(* The request after the ceiling                                           *)

\* the window of identifier id has taken exactly n checks and has not yet
\* passed its reset timestamp
ChecksInWindow(id, n) ==
    /\ id \in DOMAIN limitMap
    /\ id \in DOMAIN winStat
    /\ winStat[id].checks = n
    /\ now <= limitMap[id].resetTime

\* C21: with ceiling c, the request that arrives on a conversation id as
\* check c+1 of a window, no later than 60 seconds after the window's first
\* request, fails with RateLimited; its wait is the number of milliseconds
\* left until the reset, divided by 1000 and rounded up, and is at most 60.
C21_NextAfterCeiling ==
    [][\A p \in Procs :
          LET id == req'[p].args.conversation_id IN
          (Arrives(p) /\ id # "" /\ ChecksInWindow(id, rateLimit)) =>
              /\ IsRateLimited(req'[p])
              /\ LET wait == req'[p].out.error.waitTimeSeconds
                     left == limitMap[id].resetTime - now
                 IN  /\ wait * 1000 >= left
                     /\ (wait - 1) * 1000 < left
                     /\ wait <= 60
              /\ limitMap' = limitMap]_vars

\* a request on c1 was rejected one millisecond before the reset of a window
\* that began after time 0, and is told to wait one second
C21_Witness ==
    \E p \in Procs :
        /\ IsRateLimited(req[p])
        /\ req[p].args.conversation_id = "c1"
        /\ limitMap["c1"].resetTime - now = 1
        /\ limitMap["c1"].resetTime > windowMs
        /\ req[p].out.error.waitTimeSeconds = 1

\* C22: a check made at or after the reset timestamp of the identifier's
\* window, the timestamp itself included, is allowed and starts a fresh
\* window with count 1 that ends 60000 ms later, whatever the count was.
C22_FreshAtReset ==
    [][\A p \in Procs :
          LET id == rateLimitId(req'[p].args) IN
          (Arrives(p) /\ id \in DOMAIN limitMap /\ now >= limitMap[id].resetTime) =>
              /\ ~IsRateLimited(req'[p])
              /\ limitMap'[id] = [count |-> 1, resetTime |-> now + windowMs]]_vars

----------------------------------------------------------------------------
(* Retries of the HTTP exchange                                            *)

IsNetworkOr5xx(status) == status = {} \/ (\E x \in status : x >= 500)

C23_Calls ==
    \A c \in calls :
        /\ c.attempts <= 1 + retryAttempts
        /\ Len(c.statuses) = c.attempts - 1
        /\ \A i \in 1 .. Len(c.statuses) : IsNetworkOr5xx(c.statuses[i])

C23_Steps ==
    \A c \in calls' :
        (c \notin calls /\ c.attempts > 1) =>
            \E b \in calls \ calls' :
                /\ b.owner = c.owner /\ b.idx = c.idx
                /\ \/ c = Abandoned(b)
                   \/ /\ c.attempts = b.attempts + 1
                      /\ b.attempts < 1 + retryAttempts
                      /\ SubSeq(c.statuses, 1, Len(b.statuses)) = b.statuses
                      /\ IsNetworkOr5xx(c.statuses[Len(c.statuses)])

\* C23: one upstream call makes at most 1 + retryAttempts HTTP attempts, and
\* every attempt after the first follows an attempt that failed at the
\* network level or with a 5xx status: an attempt answered with a 4xx status
\* is the call's last.
C23_BoundedRetries == []C23_Calls /\ [][C23_Steps]_vars

\* a call is at its last permitted attempt after a network failure, while the
\* breaker has counted the failure of an earlier call
C23_Witness ==
    /\ \E c \in calls :
          /\ c.attempts = 1 + retryAttempts
          /\ c.statuses[Len(c.statuses)] = {}
    /\ breaker.failures > 0

----------------------------------------------------------------------------
(* Keyword matching                                                        *)

KeywordSets == <<codingKeywords, complexKeywords, quickKeywords, budgetKeywords>>
ModelOfSet ==
    <<"openai/gpt-5-codex", "x-ai/grok-code-fast-1", "google/gemini-2.5-pro",
      "x-ai/grok-code-fast-1">>

\* the keyword sets a lower-cased text has a word of
MatchedSets(lower) ==
    {i \in 1 .. Len(KeywordSets) : \E k \in KeywordSets[i] : Includes(lower, k)}

FirstMatchModel(text) ==
    LET matched == MatchedSets(ToLowerCase(text)) IN
    IF matched = {} THEN "openai/gpt-5-codex"
    ELSE ModelOfSet[CHOOSE i \in matched : \A j \in matched : i <= j]

C24_Selected ==
    \A p \in Procs :
        req[p].pc = "selected" =>
            LET text == req[p].args.task_description IN
            /\ req[p].selectedModel = FirstMatchModel(text)
            /\ req[p].selectedModel = selectModel(ToLowerCase(text)).id

C24_Frame ==
    UNCHANGED <<now, rateLimit, limitMap, winStat, cache, histories, breaker, calls,
                maxHistoryLength, appended>>

\* C24: selectModel depends on the lower-cased text only and gives the model
\* of the first of the four keyword sets, in the order coding, complex
\* analysis, quick question, budget, that has a word in the text, and the
\* default gpt-5-codex when none has; the call changes no state.
C24_FirstMatchWins == []C24_Selected /\ [][C24_Frame]_vars

\* a text in mixed case with words of the complex-analysis, quick-question and
\* budget sets, but no coding word, was given the complex-analysis model
C24_Witness ==
    \E p \in Procs :
        /\ req[p].pc = "selected"
        /\ MatchedSets(ToLowerCase(req[p].args.task_description)) = {2, 3, 4}
        /\ MatchedSets(req[p].args.task_description) # {2, 3, 4}
        /\ req[p].selectedModel = "x-ai/grok-code-fast-1"

----------------------------------------------------------------------------
(* Cache round trip                                                        *)

\* the instants, from the present one on, at which a get may be made
LaterTimes(t0) == {t \in StoreTimes \cup {0} : t >= t0}

C25_Steps ==
    \A key \in StoreKeys :
        /\ \A value \in StoreValues :
              StoreSet(key, value) =>
                  \A t \in LaterTimes(now) :
                      Cache_get(cache', key, t) =
                          IF t < now + cacheTtlSeconds * 1000 THEN {value} ELSE {}
        /\ StoreDelete(key) => \A t \in LaterTimes(now) : Cache_get(cache', key, t) = {}
        /\ StoreClear => \A t \in LaterTimes(now) : Cache_get(cache', key, t) = {}
        /\ StoreGet(key) => req'[1].out.found = Cache_get(cache, key, now)
        /\ (~StoreDelete(key) /\ ~StoreClear /\ \A value \in StoreValues : ~StoreSet(key, value)) =>
              \A t \in LaterTimes(now') : Cache_get(cache', key, t) = Cache_get(cache, key, t)

\* C25: after set(k, v), get(k) gives v, the latest value set, at every time
\* before the TTL has elapsed since that set and nothing from then on;
\* delete(k) and clear() make get(k) give nothing at once.  Nothing else
\* (time passing, the sweep, a get, an operation on another key) changes what
\* get(k) gives at any later time.
C25_RoundTrip == [][C25_Steps]_vars

\* a get was given nothing for a key whose expired entry is still stored, and
\* the other key's entry, set later, is still served
C25_Witness ==
    /\ req[1].out.kind = "got"
    /\ req[1].out.found = {}
    /\ req[1].args.prompt = "k1"
    /\ "k1" \in DOMAIN cache
    /\ Cache_get(cache, "k2", now) # {}

----------------------------------------------------------------------------
(* Cache keys                                                              *)

\* the character of s at position i
CharAt(s, i) == SubSeq(s, i, i)

\* s and t have the same first n characters (or are equal and shorter)
AgreeOnFirst(s, t, n) ==
    /\ Min(Len(s), n) = Min(Len(t), n)
    /\ \A i \in 1 .. Min(Len(s), n) : CharAt(s, i) = CharAt(t, i)

\* the prompts of KeyPrompts whose answer for model is stored and still served
StoredFor(model) ==
    {q \in KeyPrompts : Cache_get(cache, generateCacheKey(q, model), now) # {}}

C26_Keys ==
    \A a \in KeyRequests, b \in KeyRequests :
        LET m == resolvedModel(a)
            key == generateCacheKey(a.prompt, m)
        IN  /\ Len(key) = Len(m) + 1 + Min(Len(a.prompt), keyPrefixLen)
            /\ SubSeq(key, 1, Len(m) + 1) = m \o ":"
            /\ AgreeOnFirst(SubSeq(key, Len(m) + 2, Len(key)), a.prompt, keyPrefixLen)
            /\ resolvedModel(b) = m =>
                   (generateCacheKey(b.prompt, m) = key
                        <=> AgreeOnFirst(a.prompt, b.prompt, keyPrefixLen))

C26_Steps ==
    \A p \in Procs :
        /\ (Arrives(p) /\ ~IsRateLimited(req'[p])) =>
              LET a == req'[p].args
                  served == {q \in StoredFor(resolvedModel(a)) :
                                AgreeOnFirst(q, a.prompt, keyPrefixLen)}
              IN  IF served = {}
                  THEN req'[p].pc = "await" /\ req'[p].upCalls = 1
                  ELSE /\ req'[p].pc = "done"
                       /\ req'[p].upCalls = 0
                       /\ req'[p].out.response.cached
                       /\ \A q \in served :
                              req'[p].out.response.response =
                                  cache[generateCacheKey(q, resolvedModel(a))].value.response
        /\ (req[p].pc = "await" /\ req'[p].pc = "done") =>
              \A q \in KeyPrompts :
                  AgreeOnFirst(q, req[p].args.prompt, keyPrefixLen) =>
                      q \in {x \in KeyPrompts :
                                Cache_get(cache', generateCacheKey(x, req[p].selectedModel),
                                          now) # {}}

\* C26: the cache key is the model id, a colon and the first 100 characters
\* of the prompt.  For one model two prompts have the same key exactly when
\* they agree on their first 100 characters, so a stateless request is
\* answered from the cache exactly when an answer for that model is stored
\* for a prompt agreeing with its own on the first 100 characters, and is
\* then given that answer.
C26_PrefixKey == []C26_Keys /\ [][C26_Steps]_vars

\* a request whose prompt is longer than 100 characters was answered from the
\* cache while only one answer is stored
C26_Witness ==
    \E p \in Procs :
        /\ req[p].pc = "done"
        /\ req[p].out.kind = "ok"
        /\ req[p].out.response.cached
        /\ req[p].args.prompt = Prefix99 \o "X and another"
        /\ Cardinality(DOMAIN cache) = 1

----------------------------------------------------------------------------
(* Keys do not contend                                                     *)

\* what map f holds under every key but a is what map g holds
SameButFor(f, g, a) ==
    /\ DOMAIN f \ {a} = DOMAIN g \ {a}
    /\ \A b \in DOMAIN f \ {a} : f[b] = g[b]

C27_Steps ==
    \A a \in HistoryIds :
        /\ (LimiterCheck(a) \/ LimiterReset(a)) => SameButFor(limitMap', limitMap, a)
        /\ (\/ HistoryGet(a)
            \/ HistoryClear(a)
            \/ \E u \in UserMessages, m \in AssistantMessages : HistoryUpdate(a, u, m))
              => SameButFor(histories', histories, a)

\* C27: checkLimit(a) and reset(a) leave the window of every other identifier
\* as it was, and getHistory(a), updateHistory(a, ..) and clearHistory(a)
\* leave the history of every other conversation as it was.
C27_KeysApart == [][C27_Steps]_vars

\* both identifiers have a window and a history, and they differ: c1's window
\* is full and younger, c1's history has been trimmed, c2's has one turn
C27_Witness ==
    /\ DOMAIN limitMap = HistoryIds
    /\ DOMAIN histories = HistoryIds
    /\ limitMap["c1"].count = rateLimit
    /\ limitMap["c2"].count = 1
    /\ limitMap["c1"].resetTime > limitMap["c2"].resetTime
    /\ Len(Stored(appended, "c1")) > Len(histories["c1"])
    /\ histories["c2"] = Stored(appended, "c2")
    /\ Len(histories["c2"]) = 2

----------------------------------------------------------------------------
(* The status code of an upstream failure                                  *)

\* the call c finally fails in this step with an HTTP response of status st
FailsWith(c, st) == HttpFailure(c, {st})

\* C28: when a call finally fails with an HTTP response of status s, the
\* error that consultAI throws, and that a single-model consult hands to its
\* caller, carries the status code s.
C28_StatusCarried ==
    [][\A c \in calls : \A st \in {400, 500} :
          (FailsWith(c, st) /\ ~IsMulti(req[c.owner])) =>
              /\ IsUpstreamFailure(req'[c.owner])
              /\ req'[c.owner].out.error.statusCode = {st}]_vars

----------------------------------------------------------------------------
(* The breaker's per-call timeout                                          *)

TimedOut(r) ==
    /\ IsUpstreamFailure(r)
    /\ r.out.error.message = "API error: Timed out after " \o ToString(circuitBreakerTimeout) \o "ms"

C29_Steps ==
    \A c \in calls :
        /\ CallTimeout(c) =>
              /\ TimedOut(req'[c.owner])
              /\ breaker'.state = "OPEN" \/ breaker'.failures >= 1
              /\ breaker'.successes <= breaker.successes
              /\ (breaker.state = "CLOSED" /\ breaker.successes + breaker.failures < MaxStat)
                     => breaker'.failures = breaker.failures + 1
              /\ c \notin calls'
              /\ \E z \in calls' :
                     z.abandoned /\ z.owner = c.owner /\ z.attempts = c.attempts
              /\ UNCHANGED <<cache, histories>>
        /\ (c.abandoned /\ c \notin calls') =>
              UNCHANGED <<cache, histories, breaker, req, limitMap>>

\* C29: a call that runs into the breaker's per-call timeout fails its
\* request with the timeout error and is counted by the breaker as one
\* failure, while its HTTP exchange stays in flight; whatever that exchange
\* does afterwards (a further attempt, a response, a failure) changes neither
\* the cache, nor a history, nor the breaker, nor any request.
C29_TimeoutAbandons == [][C29_Steps]_vars

\* a request has just been failed by the timeout while its exchange is still
\* in flight, on a further attempt
C29_Witness ==
    \E c \in calls :
        /\ c.abandoned
        /\ c.attempts > 1
        /\ TimedOut(req[c.owner])
        /\ breaker.failures >= 1

----------------------------------------------------------------------------
(* Concurrent turns of one conversation                                    *)

\* the history a call was sent with: its messages but the last
SentHistory(c) == SubSeq(c.sent, 1, Len(c.sent) - 1)

IsPrefix(s, t) == Len(s) <= Len(t) /\ SubSeq(t, 1, Len(s)) = s

\* the calls in flight for requests on conversation id
TurnsInFlight(id) ==
    {c \in calls : ~c.abandoned /\ req[c.owner].args.conversation_id = id}

C30_InFlight ==
    \A c \in TurnsInFlight("c1") :
        /\ c.sent[Len(c.sent)] = Message("user", req[c.owner].args.prompt)
        /\ IsPrefix(SentHistory(c), Stored(histories, "c1"))
        /\ \A d \in TurnsInFlight("c1") :
              Len(SentHistory(c)) = Len(SentHistory(d)) => SentHistory(c) = SentHistory(d)

C30_Steps ==
    /\ \A p \in Procs :
          (Arrives(p) /\ req'[p].pc = "await") =>
              \E c \in calls' \ calls :
                  /\ c.owner = p
                  /\ SentHistory(c) = Stored(histories, "c1")
                  /\ histories' = [x \in {"c1"} |-> Stored(histories, "c1")]
    /\ \A c \in calls :
          Settles(c) =>
              IF req'[c.owner].out.kind = "ok"
              THEN histories'["c1"] =
                       histories["c1"] \o
                           <<Message("user", req[c.owner].args.prompt),
                             Message("assistant", req'[c.owner].out.result.response)>>
              ELSE histories' = histories

\* C30: requests on one conversation that are in flight together were each
\* sent the history stored when they arrived, without the turn of any
\* request still in flight; each one that completes appends its user and
\* assistant message as one adjacent pair behind everything stored, so the
\* turns lie in order of completion, none is lost and no pair is split.
C30_TurnsByCompletion == []C30_InFlight /\ [][C30_Steps]_vars

\* two requests are in flight together, both sent the one turn stored so far
C30_Witness ==
    \E c \in calls, d \in calls :
        /\ c.owner # d.owner
        /\ {c, d} \subseteq TurnsInFlight("c1")
        /\ Len(Stored(histories, "c1")) = 2
        /\ SentHistory(c) = histories["c1"]
        /\ SentHistory(d) = histories["c1"]

----------------------------------------------------------------------------
(* Identical stateless requests in flight together                         *)

\* slot p takes a stateless single-model request that passes the rate limit
\* while slot q awaits the call of a request with the same arguments and the
\* cache holds no live entry for them
ArrivesBeside(p, q) ==
    /\ p # q
    /\ Arrives(p)
    /\ IsStatelessSingle(req'[p])
    /\ ~IsRateLimited(req'[p])
    /\ req[q].pc = "await"
    /\ req[q].args = req'[p].args
    /\ entryFor(req'[p].args) = {}

C31_Steps ==
    \A p \in Procs :
        /\ \A q \in Procs :
              ArrivesBeside(p, q) =>
                  /\ req'[p].upCalls = 1
                  /\ req'[p].trace = <<"checkLimit", "cacheGet", "consultAI">>
                  /\ calls \subseteq calls'
                  /\ \E d \in calls : d.owner = q /\ ~d.abandoned
                  /\ req'[q] = req[q]
                  /\ cache' = cache
                  /\ IF breaker.state = "CLOSED"
                     THEN /\ req'[p].pc = "await"
                          /\ \E c \in calls' \ calls : c.owner = p /\ c.attempts = 1
                          /\ Cardinality({c \in calls' : ~c.abandoned /\ c.owner \in {p, q}}) = 2
                     ELSE \/ req'[p].pc = "await"
                          \/ /\ IsUpstreamFailure(req'[p])
                             /\ req'[p].out.error.message = "API error: Breaker is open"
                             /\ calls' = calls
        /\ MissSucceeds(p) =>
              LET a == req[p].args
                  key == generateCacheKey(a.prompt, resolvedModel(a))
              IN  /\ cache'[key] = [value |-> req'[p].out.result, setAt |-> now]
                  /\ \A k \in DOMAIN cache' \ {key} : k \in DOMAIN cache /\ cache'[k] = cache[k]

\* C31: a stateless single-model request that arrives while an identical one
\* is awaiting its upstream call, with no entry for them in the cache, misses
\* the cache and invokes consultAI itself: with the breaker CLOSED it starts
\* an upstream call of its own beside the other's, which goes on untouched
\* (a breaker that is not CLOSED may refuse it instead); and each such call
\* that succeeds overwrites the entry of the key with its own result, so that
\* the entry holds the result of the call that completed last.
C31_NoCoalescing == [][C31_Steps]_vars

\* one of two identical stateless requests has just completed and its result
\* is in the cache, while the other, which missed the cache before that, is
\* still awaiting its own call
C31_Witness ==
    \E p, q \in Procs :
        /\ p # q
        /\ req[q].pc = "done"
        /\ IsStatelessSingle(req[q])
        /\ req[q].out.kind = "ok"
        /\ ~req[q].out.response.cached
        /\ req[p].pc = "await"
        /\ req[p].args = req[q].args
        /\ req[p].trace = <<"checkLimit", "cacheGet", "consultAI">>
        /\ entryFor(req[q].args) = {req[q].out.result}
        /\ \E c \in calls : c.owner = p /\ ~c.abandoned

----------------------------------------------------------------------------
(* clear_history                                                           *)

\* the request in r asks for the history of its conversation to be cleared
Clears(r) == r.args.clear_history /\ r.args.conversation_id # ""

\* the step of slot p is that of the same request without its clear_history
WithoutFlag(p) ==
    LET a == req'[p].args
        res == consult(p, [a EXCEPT !.clear_history = FALSE], World, now, rateLimit)
    IN  /\ req'[p] = [res.r EXCEPT !.args = a]
        /\ histories' = res.w.histories
        /\ cache' = res.w.cache
        /\ limitMap' = res.w.limitMap
        /\ breaker' = res.w.breaker
        /\ calls' = res.w.calls

C32_Steps ==
    \A p \in Procs :
        LET id == req'[p].args.conversation_id IN
        \* the request arrives and passes the rate limit
        /\ (Arrives(p) /\ ~IsRateLimited(req'[p]) /\ Clears(req'[p])) =>
              /\ req'[p].trace[2] = "clearHistory"
              /\ Stored(histories', id) = <<>>
              /\ \A c \in calls' \ calls :
                     c.owner = p /\ c.sent = <<Message("user", req'[p].args.prompt)>>
              /\ ~IsMulti(req'[p]) =>
                     \/ req'[p].pc = "await" /\ calls' # calls
                     \/ IsUpstreamFailure(req'[p]) /\ calls' = calls
        \* a call of a batch is sent what the conversation holds by then
        /\ (req[p].pc = "loop" /\ Clears(req[p])) =>
              \A c \in calls' \ calls :
                  c.sent = Stored(histories, id) \o <<Message("user", req[p].args.prompt)>>
        \* the awaited call of the single-model path fails
        /\ (req[p].pc = "await" /\ SingleFails(p) /\ Clears(req'[p])) =>
              /\ Has(req'[p], "clearHistory")
              /\ histories' = histories
        \* the flag without a conversation id
        /\ (Arrives(p) /\ req'[p].args.clear_history /\ id = "") =>
              /\ ~Has(req'[p], "clearHistory")
              /\ WithoutFlag(p)

\* C32: a request with clear_history and a conversation id that passes the
\* rate limit clears the conversation before anything else: the stored
\* history is empty when the step ends and the call it starts in that step
\* carries the new user message alone; a call a batch starts later carries
\* what the conversation holds by then.  When the awaited call of the
\* single-model path fails no history is changed, so what was cleared stays
\* cleared.  With no conversation id the flag changes nothing: the request
\* does what the same request without the flag does.
C32_ClearIsNotRolledBack == [][C32_Steps]_vars

\* a clearing single-model request has failed upstream and its conversation
\* is empty, while a call sent earlier with a turn of that conversation is
\* still in flight
C32_Witness ==
    \E p, q \in Procs :
        /\ p # q
        /\ ~IsMulti(req[p])
        /\ Clears(req[p])
        /\ IsUpstreamFailure(req[p])
        /\ req[p].upCalls = 1
        /\ Stored(histories, req[p].args.conversation_id) = <<>>
        /\ req[q].pc = "await"
        /\ req[q].args.conversation_id = req[p].args.conversation_id
        /\ \E d \in calls : d.owner = q /\ Len(d.sent) = 3

----------------------------------------------------------------------------
(* A batch none of whose models answered                                   *)

\* every consultAI invocation of the batch in r rejected
AllFailed(r) == IsMulti(r) /\ r.failed = 1 .. Len(r.args.models)

\* the batch in slot p leaves its loop in this step, none of its models
\* having answered, and it has a conversation id
FinishesAllFailed(p) ==
    /\ req[p].pc = "loop"
    /\ req'[p].pc = "done"
    /\ AllFailed(req[p])
    /\ req[p].args.conversation_id # ""

C33_Steps ==
    /\ \A p \in Procs :
          FinishesAllFailed(p) =>
              LET r == req[p]
                  id == r.args.conversation_id
                  h == histories'[id]
              IN  /\ req'[p].out.kind = "ok"
                  /\ req'[p].out.result.usage = Usage({0}, {0}, {0})
                  /\ req'[p].out.response.tokens_used = Usage({0}, {0}, {0})
                  /\ Len(r.results) = Len(r.args.models)
                  /\ \A i \in 1 .. Len(r.results) : IsErrorEntry(r.results[i])
                  /\ Times(req'[p], "updateHistory") = 1
                  /\ LastN(h, 2) = <<Message("user", r.args.prompt),
                                     Message("assistant", combineResponses(r.results))>>
                  /\ req'[p].out.response.response = combineResponses(r.results)
    /\ \A c \in calls' \ calls :
          (~c.abandoned /\ req'[c.owner].args.conversation_id # "") =>
              SentHistory(c) = Stored(histories', req'[c.owner].args.conversation_id)

\* C33: a batch with a conversation id whose every model failed returns a
\* result whose token totals are all zero, and records one turn: the prompt
\* and, as the assistant message, the combined text, every section of which
\* is an error entry; and a call started for a request of a conversation is
\* sent the stored history of that conversation, that turn included.
C33_AllFailedStillRecorded == [][C33_Steps]_vars

\* a call in flight was sent, as the assistant's part of a recorded turn, a
\* combined text holding the refusal of the OPEN breaker and no answer
C33_Witness ==
    \E c \in calls :
        /\ ~c.abandoned
        /\ Len(c.sent) = 3
        /\ c.sent[2].role = "assistant"
        /\ Includes(c.sent[2].content, "# Multi-Model Consultation Results")
        /\ Includes(c.sent[2].content, "Error: API error: Breaker is open")
        /\ ~Includes(c.sent[2].content, "answer A")
        /\ Stored(histories, req[c.owner].args.conversation_id) = SubSeq(c.sent, 1, 2)

----------------------------------------------------------------------------
(* The rate limit stands before the cache                                  *)

\* the limiter holds a window of id that has not run out at time t
LiveWindow(id, t) == id \in DOMAIN limitMap /\ ~(t > limitMap[id].resetTime)

\* slot p takes a stateless single-model request while the cache holds a
\* live entry for it
ArrivesAtCached(p) ==
    /\ Arrives(p)
    /\ IsStatelessSingle(req'[p])
    /\ entryFor(req'[p].args) # {}

C34_Steps ==
    \A p \in Procs :
        ArrivesAtCached(p) =>
            /\ req'[p].trace[1] = "checkLimit"
            /\ req'[p].pc = "done"
            /\ req'[p].upCalls = 0
            /\ calls' = calls
            /\ IF LiveWindow("global", now) /\ limitMap["global"].count >= rateLimit
               THEN /\ IsRateLimited(req'[p])
                    /\ ~Has(req'[p], "cacheGet")
                    /\ limitMap' = limitMap
               ELSE /\ req'[p].out.kind = "ok"
                    /\ req'[p].out.response.cached
                    /\ limitMap'["global"].count =
                           IF LiveWindow("global", now) THEN limitMap["global"].count + 1 ELSE 1

\* C34: a stateless single-model request whose answer is in the cache is
\* first charged to the "global" window: when it is admitted the window's
\* count has gone up by one (or a new window starts at one) and the answer is
\* the cached one; when the window is used up it ends with the
\* RateLimitError and the cache is not even looked up.  Either way no
\* upstream call is made.
C34_LimitBeforeCache == [][C34_Steps]_vars

\* a stateless request has been rejected by the limiter while the cache
\* holds a live entry for it
C34_Witness ==
    \E p \in Procs :
        /\ IsRateLimited(req[p])
        /\ IsStatelessSingle(req[p])
        /\ entryFor(req[p].args) # {}
        /\ req[p].trace = <<"checkLimit">>
        /\ limitMap["global"].count = rateLimit

----------------------------------------------------------------------------
(* A batch that lists a model more than once                               *)

\* the model id a batch consults for an element of its list
BatchModel(modelId) ==
    LET modelConfig == getModelById(modelId)
    IN  IF modelConfig # {} THEN (CHOOSE m \in modelConfig : TRUE).id ELSE modelId

DistinctModels(r) == {r.args.models[i] : i \in 1 .. Len(r.args.models)}

\* the batch in slot p takes the next model of its list in this step
TakesModel(p) ==
    /\ IsMulti(req[p])
    /\ req[p].pc = "loop"
    /\ req[p].idx <= Len(req[p].args.models)
    /\ req'[p] # req[p]

C35_Steps ==
    \A p \in Procs :
        TakesModel(p) =>
            LET r == req[p]
                key == generateCacheKey(r.args.prompt, BatchModel(r.args.models[r.idx]))
                entry == CacheGet(cache, key, now)
            IN  IF r.args.conversation_id = "" /\ entry # {}
                THEN /\ req'[p].upCalls = r.upCalls
                     /\ calls' = calls
                     /\ req'[p].pc = "loop"
                     /\ req'[p].results[r.idx].cached
                     /\ \A v \in entry : req'[p].results[r.idx].response = v.response
                ELSE /\ req'[p].upCalls = r.upCalls + 1
                     /\ Has(req'[p], "consultAI")

\* an answer a stateless batch was given is in the cache from then on, live
\* until its TTL has run out
C35_Entries ==
    \A p \in Procs :
        (IsMulti(req[p]) /\ req[p].args.conversation_id = "") =>
            \A i \in 1 .. Len(req[p].results) :
                i \notin req[p].failed =>
                    LET key == generateCacheKey(req[p].args.prompt,
                                                BatchModel(req[p].args.models[i]))
                    IN  /\ key \in DOMAIN cache
                        /\ now < cacheTtlSeconds * 1000 => CacheGet(cache, key, now) # {}

\* a stateless batch that has returned before any entry can have run out
C35_WithinTtl ==
    \A p \in Procs :
        (BatchReturned(req[p]) /\ req[p].args.conversation_id = ""
             /\ req[p].failed = {} /\ now < cacheTtlSeconds * 1000) =>
            /\ req[p].upCalls <= Cardinality(DistinctModels(req[p]))
            /\ \A i, j \in 1 .. Len(req[p].results) :
                   (i < j /\ req[p].args.models[i] = req[p].args.models[j]) =>
                       req[p].results[j].cached

\* C35: when a stateless batch comes to a model whose key has a live entry
\* in the cache, the entry is its answer and no upstream call is made;
\* otherwise, and always with a conversation id, consultAI is invoked.  An
\* answer given to a stateless batch stays in the cache until its TTL has
\* run out, so in a fully successful stateless batch that returns before
\* then every later occurrence of a model is served from the cache and the
\* upstream calls are at most the distinct models listed.
C35_RepeatsWhileLive == []C35_Entries /\ []C35_WithinTtl /\ [][C35_Steps]_vars

\* a fully successful stateless batch has returned after time has passed:
\* its first and last model are the same, the last was served from the cache
C35_Witness ==
    \E p \in Procs :
        LET r == req[p] IN
        /\ BatchReturned(r)
        /\ r.args.conversation_id = ""
        /\ r.failed = {}
        /\ Len(r.results) = 3
        /\ r.args.models[1] = r.args.models[3]
        /\ ~r.results[1].cached
        /\ r.results[3].cached
        /\ r.upCalls = 2
        /\ now = 2 * CallTime

\* C35 as stated: in a fully successful stateless batch every later
\* occurrence of a model is served from the cache, and the upstream calls are
\* at most the distinct models listed.
C35_AtMostDistinct ==
    \A p \in Procs :
        (BatchReturned(req[p]) /\ req[p].args.conversation_id = "" /\ req[p].failed = {}) =>
            /\ req[p].upCalls <= Cardinality(DistinctModels(req[p]))
            /\ \A i, j \in 1 .. Len(req[p].results) :
                   (i < j /\ req[p].args.models[i] = req[p].args.models[j]
                        /\ ~req[p].results[i].cached) =>
                       req[p].results[j].cached

----------------------------------------------------------------------------
(* Retries inside the breaker's action                                     *)

\* the breaker's statistic after one more outcome: the rolling window holds
\* MaxStat outcomes and starts over when it is full
OneMoreCounted(b, success) ==
    LET full == b.successes + b.failures >= MaxStat
        s0 == IF full THEN 0 ELSE b.successes
        f0 == IF full THEN 0 ELSE b.failures
    IN  IF success THEN <<s0 + 1, f0>> ELSE <<s0, f0 + 1>>

Statistic(b) == <<b.successes, b.failures>>

\* the call d is the call c after one more attempt
NextAttemptOf(d, c) ==
    /\ d.attempts = c.attempts + 1
    /\ [d EXCEPT !.attempts = c.attempts, !.statuses = c.statuses] = c

C36_Steps ==
    \* consultAI is invoked: the breaker is fired once
    /\ \A p \in Procs :
          Invokes(p) =>
              /\ Statistic(breaker') = Statistic(breaker)
              /\ \/ /\ req'[p].pc = "await"
                    /\ \E d \in calls' :
                           /\ calls' = calls \cup {d}
                           /\ d \notin calls
                           /\ d.owner = p /\ d.attempts = 1 /\ d.statuses = <<>>
                 \/ /\ IsUpstreamFailure(req'[p])
                    /\ calls' = calls
                    /\ breaker' = breaker
    \* a further attempt of a call: neither the breaker nor a request sees it
    /\ \A c \in calls : \A d \in calls' \ calls :
          (NextAttemptOf(d, c) /\ c \notin calls') =>
              /\ breaker' = breaker
              /\ req' = req
              /\ calls' = (calls \ {c}) \cup {d}
    \* the fire settles: one outcome is counted, whatever the attempts made
    /\ \A c \in calls :
          Settles(c) =>
              /\ req'[c.owner].pc = "done"
              /\ Statistic(breaker') = OneMoreCounted(breaker, req'[c.owner].out.kind = "ok")
              /\ \A d \in calls' \ calls : d = Abandoned(c)
              /\ c \notin calls'
    \* an exchange nobody awaits ends
    /\ \A c \in calls :
          (c.abandoned /\ c \notin calls' /\ ~\E d \in calls' \ calls : NextAttemptOf(d, c)) =>
              /\ breaker' = breaker
              /\ req' = req

\* every request has fired the breaker at most once and awaits at most one call
C36_OneFire ==
    \A p \in Procs :
        /\ req[p].upCalls <= 1
        /\ Cardinality(InFlight(p)) <= 1
        /\ req[p].pc = "await" <=> Cardinality(InFlight(p)) = 1

\* C36: a consultAI call fires the breaker once.  The HTTP attempts of the
\* call, however many, are made inside the fired action: a further attempt
\* changes neither the breaker nor any request, and when the fire settles (by
\* an answer, by the last failure or by the breaker's timeout, at whichever
\* attempt) the breaker counts exactly one outcome, a success if the request
\* got its answer and a failure otherwise.  A timeout ends the fire whatever
\* attempt is running; the attempts that follow belong to nobody.
C36_RetryInsideFire == []C36_OneFire /\ [][C36_Steps]_vars

\* a call was ended by the breaker's timeout during its second attempt, after
\* a first attempt answered 500: the breaker has counted one failure
C36_Witness ==
    \E c \in calls :
        /\ c.abandoned
        /\ c.attempts = 2
        /\ c.statuses = <<{500}>>
        /\ TimedOut(req[c.owner])
        /\ Statistic(breaker) = <<0, 1>>
        /\ breaker.state = "OPEN"

----------------------------------------------------------------------------
(* The window of the limiter is fixed                                      *)

Max(a, b) == IF a > b THEN a ELSE b

C37_Windows ==
    \A id \in DOMAIN limitMap :
        /\ 1 <= limitMap[id].count
        /\ limitMap[id].count <= Max(1, rateLimit)

C37_Steps ==
    /\ \A p \in Procs :
          Arrives(p) =>
              LET id == rateLimitId(req'[p].args) IN
              /\ SameButFor(limitMap', limitMap, id)
              /\ IF IsRateLimited(req'[p])
                 THEN /\ limitMap' = limitMap
                      /\ LiveWindow(id, now)
                      /\ limitMap[id].count >= rateLimit
                 ELSE IF LiveWindow(id, now)
                 THEN limitMap'[id] = [count |-> limitMap[id].count + 1,
                                       resetTime |-> limitMap[id].resetTime]
                 ELSE limitMap'[id] = [count |-> 1, resetTime |-> now + windowMs]
    /\ (\A p \in Procs : ~Arrives(p)) => limitMap' = limitMap

\* C37: a check that is rejected leaves the limiter as it was; a check that
\* is allowed inside a live window adds exactly one to the window's count
\* and leaves its reset timestamp alone; a check outside a live window starts
\* a window of count 1; nothing else touches a window.  So the count of every
\* stored window is at least 1 and at most max(1, ceiling).
C37_FixedWindow == []C37_Windows /\ [][C37_Steps]_vars

\* a request is rejected at the last instant of a window that began at time
\* 0 and has taken all the checks the ceiling allows, more than one
C37_Witness ==
    \E p \in Procs :
        LET id == rateLimitId(req[p].args) IN
        /\ IsRateLimited(req[p])
        /\ rateLimit >= 2
        /\ limitMap[id].count = rateLimit
        /\ winStat[id].admitted = rateLimit
        /\ limitMap[id].resetTime = windowMs
        /\ now = windowMs

----------------------------------------------------------------------------
(* Termination                                                             *)

\* the activation in slot p has not returned yet
Pending(p) == req[p].pc \in {"loop", "await"}

\* a batch has one entry for each model its loop has left behind
C38_Entries ==
    \A p \in Procs :
        IsMulti(req[p]) =>
            LET r == req[p]
                k == Len(r.args.models)
            IN  /\ r.pc \in {"loop", "await"} => Len(r.results) = r.idx - 1 /\ r.idx <= k + 1
                /\ r.pc = "await" => r.idx <= k
                /\ BatchReturned(r) =>
                       /\ Len(r.results) = k
                       /\ r.idx = k + 1
                       /\ r.upCalls + Cardinality({i \in 1 .. k : r.results[i].cached}) = k

\* a step of a batch either leaves its position alone or moves it on by one
\* model, whose entry it adds
C38_Steps ==
    \A p \in Procs :
        BatchMoves(p) =>
            \/ /\ req'[p].idx = req[p].idx
               /\ req'[p].results = req[p].results
            \/ /\ req'[p].idx = req[p].idx + 1
               /\ Len(req'[p].results) = Len(req[p].results) + 1
               /\ SubSeq(req'[p].results, 1, Len(req[p].results)) = req[p].results
               /\ req'[p].results[req[p].idx].model = req[p].args.models[req[p].idx]

\* C38: a consult call that has not returned returns in the end, with a
\* result or with an error, when every fire that is awaited settles; and a
\* batch of k models moves through its list one model at a time, each model
\* leaving one entry, so that it returns with k entries after k per-model
\* steps.
C38_Completes ==
    /\ \A p \in Procs : Pending(p) ~> (req[p].pc = "done")
    /\ []C38_Entries
    /\ [][C38_Steps]_vars

\* a batch of two has returned after its first call was retried and then
\* ended by the breaker's timeout, its exchange still running, and its
\* second model was refused by the breaker
C38_Witness ==
    \E p \in Procs :
        /\ BatchReturned(req[p])
        /\ Len(req[p].results) = 2
        /\ req[p].failed = {1, 2}
        /\ req[p].results[1].response = "Error: API error: Timed out after "
                                            \o ToString(circuitBreakerTimeout) \o "ms"
        /\ req[p].results[2].response = "Error: API error: Breaker is open"
        /\ \E c \in calls : c.abandoned /\ c.owner = p /\ c.attempts = 1 + retryAttempts

====
